---- MODULE Spec2Model ----
(***************************************************************************)
(* Org-chart data layer of the Command Center application:                 *)
(*   OrgCrudService   (src/cc/OrgCrudService.js)                           *)
(*   TeamsCrudService (src/cc/SetupIntegrationTests.js, lines 713-1427)    *)
(*   OrgSetupService  (src/cc/OrgSetupService.js)                          *)
(*                                                                         *)
(* Representation of JavaScript values                                     *)
(*   - text cells are TLA+ strings; "" is the empty / undefined cell;      *)
(*   - a person's name is the list of its space-separated tokens, i.e.     *)
(*     the value of s.split(' '): "Ann Lee" is <<"Ann","Lee">>, " Ann" is   *)
(*     <<"","Ann">> and the empty string is <<"">>;                        *)
(*   - a sheet is the sequence of its data rows (the header row is left    *)
(*     out, so data.length < 2 is Len(rows) = 0);                          *)
(*   - a cache key is a record [present, val].                             *)
(***************************************************************************)
EXTENDS Integers, Sequences, FiniteSets, TLC

(***************************************************************************)
(* Bounds of the model                                                     *)
(***************************************************************************)
MaxRoster == 1
MaxTeams == 1
MaxVacants == 2
MaxShapeRoster == 3
MaxClassifyRows == 1

(***************************************************************************)
(* Program constants                                                       *)
(***************************************************************************)
ID_ROOT == "root"
ID_PREFIX_TASK == "task:"
ID_PREFIX_TEAM == "team:"
NullId == "<null>"
DefaultCpc == "400"
DefaultContract == "SQuAT"

(***************************************************************************)
(* Generic helpers                                                         *)
(***************************************************************************)
Range(s) == {s[i] : i \in DOMAIN s}

RECURSIVE KeptIdx(_, _, _)
\* the indices i of 1..n, in increasing order, for which keep[i] holds
KeptIdx(keep, i, n) ==
  IF i > n THEN <<>>
  ELSE IF keep[i] THEN <<i>> \o KeptIdx(keep, i + 1, n)
  ELSE KeptIdx(keep, i + 1, n)

RECURSIVE Dedup(_)
\* insertion order of a JavaScript Set fed with the elements of s
Dedup(s) ==
  IF s = <<>> THEN <<>>
  ELSE LET init == Dedup(SubSeq(s, 1, Len(s) - 1))
           x == s[Len(s)]
       IN IF x \in Range(init) THEN init ELSE Append(init, x)

RECURSIVE Flatten(_)
Flatten(ss) == IF ss = <<>> THEN <<>> ELSE Head(ss) \o Flatten(Tail(ss))

(***************************************************************************)
(* Names as token lists                                                    *)
(***************************************************************************)
EmptyStr == <<"">>
NameTruthy(s) == s # EmptyStr

RECURSIVE TrimLeft(_)
TrimLeft(s) ==
  IF Len(s) = 1 THEN s
  ELSE IF Head(s) = "" THEN TrimLeft(Tail(s)) ELSE s

RECURSIVE TrimRight(_)
TrimRight(s) ==
  IF Len(s) = 1 THEN s
  ELSE IF s[Len(s)] = "" THEN TrimRight(SubSeq(s, 1, Len(s) - 1)) ELSE s

\* String.prototype.trim on a token list
Trim(s) == TrimRight(TrimLeft(s))

\* [a, b].filter(Boolean).join(' ')
JoinTruthy(a, b) ==
  IF NameTruthy(a) /\ NameTruthy(b) THEN a \o b
  ELSE IF NameTruthy(a) THEN a
  ELSE IF NameTruthy(b) THEN b
  ELSE EmptyStr

\* name.split(' ')[0] || ''
SplitFirst(name) == <<Head(name)>>

\* name.split(' ').slice(1).join(' ') || ''
SplitRest(name) == IF Len(name) = 1 THEN EmptyStr ELSE Tail(name)

(***************************************************************************)
(* Text helpers over the value domains of the model                        *)
(***************************************************************************)
\* cpc.charAt(0)
CharAt0(cpc) ==
  CASE cpc = "" -> ""
    [] cpc \in {"100"} -> "1"
    [] cpc \in {"210"} -> "2"
    [] cpc \in {"310"} -> "3"
    [] cpc \in {"400", "410"} -> "4"
    [] cpc \in {"900"} -> "9"
    [] OTHER -> "0"

\* String(cell).trim().toLowerCase() of a Node Type cell
LowerCase(s) ==
  CASE s = "Director" -> "director"
    [] s = "Lead" -> "lead"
    [] s = "Deputy" -> "deputy"
    [] OTHER -> s

\* String(n).padStart(3, '0')
PadStart3(n) ==
  IF n < 10 THEN "00" \o ToString(n)
  ELSE IF n < 100 THEN "0" \o ToString(n)
  ELSE ToString(n)

\* parseInt(hid, 10); -1 stands for NaN
ParseInt(hid) ==
  IF \E n \in 0..9 : PadStart3(n) = hid
  THEN CHOOSE n \in 0..9 : PadStart3(n) = hid
  ELSE -1

(***************************************************************************)
(* CONFIG.ORG.CPC_LEVEL_MAP                                                *)
(***************************************************************************)
CPC_LEVEL_MAP(d) ==
  CASE d = "1" -> "director"
    [] d = "2" -> "deputy"
    [] d = "3" -> "lead"
    [] d = "4" -> "person"
    [] OTHER -> ""

(***************************************************************************)
(* Personnel Reader: OrgCrudService._readTeamListRaw, the part that turns  *)
(* sheet rows into records                                                 *)
(***************************************************************************)
\* activeInOrg === false || activeInOrg === 'FALSE' || activeInOrg === 'false'
IsFalseCell(c) == c \in {"#false", "FALSE", "false"}

\* isLeadership === true || isLeadership === 'TRUE' || isLeadership === 'Yes'
IsLeadershipCell(c) == c \in {"#true", "TRUE", "Yes"}

\* a row is skipped when it has neither a UPID nor an email
RowIsBlank(row) == row.upid = "" /\ row.email = ""

\* Departed + Active In Org explicitly false: excluded from the view
RowIsExcluded(row) == row.status = "Departed" /\ IsFalseCell(row.active)

\* DeriveNodeType with the vacancy override applied only to derived types
DeriveNodeType_ExplicitWins(row) ==
  LET explicit == LowerCase(row.nodeType)
      fromCpc == IF row.cpc # ""
                 THEN (IF CPC_LEVEL_MAP(CharAt0(row.cpc)) # ""
                       THEN CPC_LEVEL_MAP(CharAt0(row.cpc)) ELSE "person")
                 ELSE "person"
      derived == IF IsLeadershipCell(row.leadership) /\ fromCpc = "person"
                 THEN "director" ELSE fromCpc
  IN IF explicit # "" THEN explicit
     ELSE IF row.status = "Departed" /\ ~IsFalseCell(row.active)
     THEN "vacant" ELSE derived

DeriveNodeType(row) ==
  LET explicit == LowerCase(row.nodeType)
      fromCpc == IF row.cpc # ""
                 THEN (IF CPC_LEVEL_MAP(CharAt0(row.cpc)) # ""
                       THEN CPC_LEVEL_MAP(CharAt0(row.cpc)) ELSE "person")
                 ELSE "person"
      derived == IF IsLeadershipCell(row.leadership) /\ fromCpc = "person"
                 THEN "director" ELSE fromCpc
      beforeVacancy == IF explicit # "" THEN explicit ELSE derived
  IN IF row.status = "Departed" /\ ~IsFalseCell(row.active)
     THEN "vacant" ELSE beforeVacancy

RowToRecord(row, i) ==
  [ employeeCode |-> row.employeeCode,
    upid |-> row.upid,
    cpc |-> row.cpc,
    hid |-> row.hid,
    supervisorUpid |-> row.sup,
    contract |-> row.contract,
    task |-> row.task,
    primaryWorkstream |-> row.ws,
    name |-> JoinTruthy(Trim(row.first), Trim(row.last)),
    email |-> row.email,
    personnelContractStatus |-> row.status,
    nodeType |-> DeriveNodeType(row),
    rowIndex |-> i + 1 ]

ReadRosterRows(rows) ==
  LET keep == [i \in 1..Len(rows) |-> ~RowIsBlank(rows[i]) /\ ~RowIsExcluded(rows[i])]
      idx == KeptIdx(keep, 1, Len(rows))
  IN [k \in 1..Len(idx) |-> RowToRecord(rows[idx[k]], idx[k])]

(***************************************************************************)
(* TeamsCrudService.getAllTeams / getAllVacantPositions: sheet rows to     *)
(* objects                                                                 *)
(***************************************************************************)
TeamRowToTeam(row, i) ==
  [ contract |-> IF row.contract # "" THEN row.contract ELSE DefaultContract,
    task |-> row.task,
    teamId |-> row.teamId,
    teamName |-> row.teamName,
    isActive |-> row.isActive,
    rowIndex |-> i + 1 ]

ReadTeamRows(rows) ==
  LET keep == [i \in 1..Len(rows) |-> ~(rows[i].teamId = "" /\ rows[i].task = "")]
      idx == KeptIdx(keep, 1, Len(rows))
  IN [k \in 1..Len(idx) |-> TeamRowToTeam(rows[idx[k]], idx[k])]

VacantRowToVacant(row, i) ==
  [ vacantId |-> row.vacantId,
    task |-> row.task,
    team |-> row.team,
    supervisorUpid |-> row.sup,
    rowIndex |-> i + 1 ]

ReadVacantRows(rows) ==
  LET keep == [i \in 1..Len(rows) |-> rows[i].vacantId # "" /\ rows[i].isActive]
      idx == KeptIdx(keep, 1, Len(rows))
  IN [k \in 1..Len(idx) |-> VacantRowToVacant(rows[idx[k]], idx[k])]

(***************************************************************************)
(* Structural Node Deriver: OrgCrudService._deriveStructuralNodes          *)
(***************************************************************************)
\* TeamsCrudService.getTaskMetadata()[taskId].contract || ''
TaskMetaContract(teams, taskId) ==
  LET hits == {k \in 1..Len(teams) : teams[k].task # "" /\ teams[k].task = taskId}
  IN IF hits = {} THEN ""
     ELSE teams[CHOOSE k \in hits : \A j \in hits : k <= j].contract

\* ContractDirector keeping the first director of a contract
ContractDirector_FirstWins(personnel, contract) ==
  LET hits == {k \in 1..Len(personnel) :
                 /\ personnel[k].nodeType = "director"
                 /\ personnel[k].contract # ""
                 /\ personnel[k].upid # ""
                 /\ personnel[k].contract = contract}
  IN IF hits = {} THEN ""
     ELSE personnel[CHOOSE k \in hits : \A j \in hits : k <= j].upid

\* contractDirectors[contract] || null ("" stands for null)
ContractDirector(personnel, contract) ==
  LET hits == {k \in 1..Len(personnel) :
                 /\ personnel[k].nodeType = "director"
                 /\ personnel[k].contract # ""
                 /\ personnel[k].upid # ""
                 /\ personnel[k].contract = contract}
  IN IF hits = {} THEN ""
     ELSE personnel[CHOOSE k \in hits : \A j \in hits : k >= j].upid

\* the task IDs in the insertion order of the Set taskIds
TaskIds(personnel, teams) ==
  LET fromTeams == [k \in 1..Len(teams) |->
                      IF teams[k].task # "" /\ teams[k].isActive
                      THEN <<teams[k].task>> ELSE <<>>]
      fromPeople == [k \in 1..Len(personnel) |->
                      IF personnel[k].task # "" THEN <<personnel[k].task>> ELSE <<>>]
  IN Dedup(Flatten(fromTeams) \o Flatten(fromPeople))

TaskNode(personnel, teams, taskId) ==
  LET directorUpid == ContractDirector(personnel, TaskMetaContract(teams, taskId))
  IN [ id |-> ID_PREFIX_TASK \o taskId,
       parentId |-> IF directorUpid # "" THEN directorUpid ELSE ID_ROOT,
       type |-> "task",
       name |-> <<taskId>>,
       email |-> "",
       status |-> "",
       row |-> 0 ]

TaskNodes(personnel, teams) ==
  LET ids == TaskIds(personnel, teams)
  IN [k \in 1..Len(ids) |-> TaskNode(personnel, teams, ids[k])]

TeamNode(t) ==
  [ id |-> ID_PREFIX_TEAM \o t.teamId,
    parentId |-> ID_PREFIX_TASK \o t.task,
    type |-> "team",
    name |-> <<IF t.teamName # "" THEN t.teamName ELSE t.teamId>>,
    email |-> "",
    status |-> "",
    row |-> 0 ]

TeamNodes(teams) ==
  LET keep == [k \in 1..Len(teams) |-> teams[k].teamId # "" /\ teams[k].isActive]
      idx == KeptIdx(keep, 1, Len(teams))
  IN [k \in 1..Len(idx) |-> TeamNode(teams[idx[k]])]

RootNode ==
  [ id |-> ID_ROOT, parentId |-> NullId, type |-> "hidden", name |-> EmptyStr,
    email |-> "", status |-> "", row |-> 0 ]

(***************************************************************************)
(* Parent Resolver: OrgCrudService._resolveParentId                        *)
(***************************************************************************)
\* upidMap.has(u): the Map is filled from the records with a truthy upid
UpidMapHas(personnel, u) == u # "" /\ \E k \in 1..Len(personnel) : personnel[k].upid = u

\* upidMap.get(u): a later record overwrites an earlier one with the same upid
UpidMapGet(personnel, u) ==
  LET hits == {k \in 1..Len(personnel) : personnel[k].upid = u}
  IN personnel[CHOOSE k \in hits : \A j \in hits : k >= j]

\* teams.find(t => t.teamName === ws && t.task === task && t.isActive)
MatchedTeamIdx(teams, p) ==
  {k \in 1..Len(teams) :
     /\ teams[k].teamName = p.primaryWorkstream
     /\ teams[k].task = p.task
     /\ teams[k].isActive}

ResolveTeamNode(p, teams, teamNodeIds) ==
  LET hits == MatchedTeamIdx(teams, p)
      m == teams[CHOOSE k \in hits : \A j \in hits : k <= j]
  IN IF p.primaryWorkstream # "" /\ hits # {}
     THEN (IF m.teamId # "" /\ (ID_PREFIX_TEAM \o m.teamId) \in teamNodeIds
           THEN ID_PREFIX_TEAM \o m.teamId ELSE "")
     ELSE ""

\* _resolveParentId with one of its rules changed: topTypes are the node types
\* of rule 1, teamFirst puts rule 2a before rule 2b, sameTaskOnly keeps the
\* task comparison of rule 2b, rule3 keeps the supervisor rule for people
\* that fall through
ResolveParentIdVariant(p, personnel, teams, teamNodeIds, taskNodeIds,
                       topTypes, teamFirst, sameTaskOnly, rule3) ==
  LET supResolves == p.supervisorUpid # "" /\ UpidMapHas(personnel, p.supervisorUpid)
      noTask == IF supResolves /\ rule3 THEN p.supervisorUpid ELSE ID_ROOT
      teamNode == ResolveTeamNode(p, teams, teamNodeIds)
      supOk == supResolves /\
                 (~sameTaskOnly \/ UpidMapGet(personnel, p.supervisorUpid).task = p.task)
  IN IF p.nodeType \in topTypes THEN ID_ROOT
     ELSE IF p.task # ""
       THEN IF teamFirst /\ teamNode # "" THEN teamNode
            ELSE IF supOk THEN p.supervisorUpid
            ELSE IF teamNode # "" THEN teamNode
            ELSE IF (ID_PREFIX_TASK \o p.task) \in taskNodeIds
              THEN ID_PREFIX_TASK \o p.task
            ELSE noTask
     ELSE noTask

\* rule 1 for directors only
ResolveParentId_DirectorOnly(p, personnel, teams, teamNodeIds, taskNodeIds) ==
  ResolveParentIdVariant(p, personnel, teams, teamNodeIds, taskNodeIds,
                         {"director"}, TRUE, TRUE, TRUE)

\* rule 2b tried before rule 2a
ResolveParentId_SupervisorFirst(p, personnel, teams, teamNodeIds, taskNodeIds) ==
  ResolveParentIdVariant(p, personnel, teams, teamNodeIds, taskNodeIds,
                         {"director", "deputy"}, FALSE, TRUE, TRUE)

\* rule 2b without the comparison of the tasks
ResolveParentId_AnyTask(p, personnel, teams, teamNodeIds, taskNodeIds) ==
  ResolveParentIdVariant(p, personnel, teams, teamNodeIds, taskNodeIds,
                         {"director", "deputy"}, TRUE, FALSE, TRUE)

\* rule 3 left out
ResolveParentId_NoRule3(p, personnel, teams, teamNodeIds, taskNodeIds) ==
  ResolveParentIdVariant(p, personnel, teams, teamNodeIds, taskNodeIds,
                         {"director", "deputy"}, TRUE, TRUE, FALSE)

\* rule 1 applied to the vacant slots of departed people as well
ResolveParentId_VacantAtRoot(p, personnel, teams, teamNodeIds, taskNodeIds) ==
  ResolveParentIdVariant(p, personnel, teams, teamNodeIds, taskNodeIds,
                         {"director", "deputy", "vacant"}, TRUE, TRUE, TRUE)

ResolveParentId(p, personnel, teams, teamNodeIds, taskNodeIds) ==
  LET supResolves == p.supervisorUpid # "" /\ UpidMapHas(personnel, p.supervisorUpid)
      noTask == IF supResolves THEN p.supervisorUpid ELSE ID_ROOT
  IN IF p.nodeType = "director" \/ p.nodeType = "deputy" THEN ID_ROOT
     ELSE IF p.task # ""
       THEN IF ResolveTeamNode(p, teams, teamNodeIds) # ""
              THEN ResolveTeamNode(p, teams, teamNodeIds)
            ELSE IF supResolves /\ UpidMapGet(personnel, p.supervisorUpid).task = p.task
              THEN p.supervisorUpid
            ELSE IF (ID_PREFIX_TASK \o p.task) \in taskNodeIds
              THEN ID_PREFIX_TASK \o p.task
            ELSE noTask
     ELSE noTask

(***************************************************************************)
(* Tree Assembler: the try block of OrgCrudService.getAllData              *)
(***************************************************************************)
PersonNode(p, parentId) ==
  [ id |-> IF p.upid # "" THEN p.upid
           ELSE IF p.email # "" THEN p.email ELSE p.employeeCode,
    parentId |-> parentId,
    type |-> p.nodeType,
    name |-> IF p.nodeType = "vacant"
             THEN <<"VACANT", "-">> \o (IF NameTruthy(p.name) THEN p.name ELSE <<"Position">>)
             ELSE p.name,
    email |-> p.email,
    status |-> p.personnelContractStatus,
    row |-> p.rowIndex ]

\* VacantParentId with the task tried before the team
VacantParentId_TaskFirst(v, personnel) ==
  IF v.supervisorUpid # "" /\ UpidMapHas(personnel, v.supervisorUpid)
  THEN v.supervisorUpid
  ELSE IF v.task # "" THEN ID_PREFIX_TASK \o v.task
  ELSE IF v.team # "" THEN ID_PREFIX_TEAM \o v.team
  ELSE ID_ROOT

\* VacantParentId without the last else branch: vParentId stays null
VacantParentId_NoRootFallback(v, personnel) ==
  IF v.supervisorUpid # "" /\ UpidMapHas(personnel, v.supervisorUpid)
  THEN v.supervisorUpid
  ELSE IF v.team # "" THEN ID_PREFIX_TEAM \o v.team
  ELSE IF v.task # "" THEN ID_PREFIX_TASK \o v.task
  ELSE NullId

VacantParentId(v, personnel) ==
  IF v.supervisorUpid # "" /\ UpidMapHas(personnel, v.supervisorUpid)
  THEN v.supervisorUpid
  ELSE IF v.team # "" THEN ID_PREFIX_TEAM \o v.team
  ELSE IF v.task # "" THEN ID_PREFIX_TASK \o v.task
  ELSE ID_ROOT

VacantNode(v, personnel) ==
  [ id |-> v.vacantId,
    parentId |-> VacantParentId(v, personnel),
    type |-> "vacant",
    name |-> <<"VACANT">>,
    email |-> "",
    status |-> "",
    row |-> 0 ]

AssembleTree(personnel, teams, vacants) ==
  LET taskNodes == TaskNodes(personnel, teams)
      teamNodes == TeamNodes(teams)
      teamNodeIds == {teamNodes[k].id : k \in 1..Len(teamNodes)}
      taskNodeIds == {taskNodes[k].id : k \in 1..Len(taskNodes)}
      personRecords == [k \in 1..Len(personnel) |->
         PersonNode(personnel[k],
                    ResolveParentId(personnel[k], personnel, teams, teamNodeIds, taskNodeIds))]
      vacantRecords == [k \in 1..Len(vacants) |-> VacantNode(vacants[k], personnel)]
  IN <<RootNode>> \o taskNodes \o teamNodes \o personRecords \o vacantRecords

(***************************************************************************)
(* State                                                                   *)
(*   roster       data rows of the external Team List sheet                *)
(*   teamRows     data rows of the Team Mappings sheet                     *)
(*   vacRows      data rows of the Vacant Positions sheet                  *)
(*   sheetFound   whether _getTeamListSheet finds the Team List sheet      *)
(*   cacheAllData AppCache entry 'org:all_data'                            *)
(*   cacheRaw     AppCache entry 'org:teamlist_raw'                        *)
(*   cacheTeams   AppCache entry 'teams:all'                               *)
(*   cacheVacants AppCache entry 'teams:vacants'                           *)
(*   w            the last write call and what it returned                 *)
(*   r            the last read call after that write and what it returned *)
(*   canEdit      whether PermissionService grants the calling user the    *)
(*                capability 'org.edit'                                    *)
(*   allRecords   the list a getAllData call has assembled and not yet     *)
(*                stored under 'org:all_data' (calls that overlap writes)  *)
(*   rawExists    whether the spreadsheet has a 'Raw Emails' sheet         *)
(*   rawEmails    data rows of 'Raw Emails' (Message ID, Contents, AI,     *)
(*                Processed)                                               *)
(*   outputExists whether the spreadsheet has an 'Output' sheet            *)
(*   output       rows of 'Output', header row included                    *)
(*   mail         the last call of scanForNewEmails or processOutputJson   *)
(*                and what it returned                                     *)
(***************************************************************************)
VARIABLES roster, teamRows, vacRows, sheetFound,
          cacheAllData, cacheRaw, cacheTeams, cacheVacants, w, r, canEdit,
          allRecords, rawExists, rawEmails, outputExists, output, mail

stores == <<roster, teamRows, vacRows, sheetFound>>
caches == <<cacheAllData, cacheRaw, cacheTeams, cacheVacants>>
orgVars == <<roster, teamRows, vacRows, sheetFound,
             cacheAllData, cacheRaw, cacheTeams, cacheVacants, w, r, canEdit, allRecords>>
emailVars == <<rawExists, rawEmails, outputExists, output, mail>>
vars == <<orgVars, emailVars>>

NoCall == [op |-> "none", threw |-> FALSE, found |-> {}, newCount |-> 0,
           totalProcessed |-> 0, rowsAdded |-> 0, errors |-> 0, skipped |-> 0]

\* no getAllData call is between its reads and its AppCache.set
NoFill == [active |-> FALSE, threw |-> FALSE, ret |-> <<>>]

\* a spreadsheet in which no scan has run yet
InitEmail ==
  /\ rawExists = FALSE
  /\ rawEmails = <<>>
  /\ outputExists = FALSE
  /\ output = <<>>
  /\ mail = NoCall

Absent == [present |-> FALSE, val |-> <<>>]
Stored(v) == [present |-> TRUE, val |-> v]

NoWrite == [op |-> "none", ok |-> FALSE, threw |-> FALSE, id |-> "", name |-> EmptyStr]
NoRead == [op |-> "none", arg |-> "", threw |-> FALSE, miss |-> FALSE, ret |-> <<>>]

WriteResult(op, ok, threw, id, name) ==
  [op |-> op, ok |-> ok, threw |-> threw, id |-> id, name |-> name]

Init ==
  /\ roster = <<>>
  /\ teamRows = <<>>
  /\ vacRows = <<>>
  /\ sheetFound = FALSE
  /\ cacheAllData = Absent
  /\ cacheRaw = Absent
  /\ cacheTeams = Absent
  /\ cacheVacants = Absent
  /\ w = NoWrite
  /\ r = NoRead
  /\ canEdit = TRUE
  /\ allRecords = NoFill
  /\ InitEmail

(***************************************************************************)
(* Cached reads.  Each returns the value read and the cache entry the call *)
(* leaves behind.                                                          *)
(***************************************************************************)
\* ReadTeamListRaw without the look-up of 'org:teamlist_raw'
ReadTeamListRaw_NoCache(cRaw, found, rows) ==
  IF ~found THEN [threw |-> TRUE, val |-> <<>>, cache |-> cRaw]
  ELSE IF Len(rows) = 0 THEN [threw |-> FALSE, val |-> <<>>, cache |-> cRaw]
  ELSE [threw |-> FALSE, val |-> ReadRosterRows(rows),
        cache |-> Stored(ReadRosterRows(rows))]

\* OrgCrudService._readTeamListRaw; threw: _getTeamListSheet found no sheet
ReadTeamListRaw(cRaw, found, rows) ==
  IF cRaw.present THEN [threw |-> FALSE, val |-> cRaw.val, cache |-> cRaw]
  ELSE IF ~found THEN [threw |-> TRUE, val |-> <<>>, cache |-> cRaw]
  ELSE IF Len(rows) = 0 THEN [threw |-> FALSE, val |-> <<>>, cache |-> cRaw]
  ELSE [threw |-> FALSE, val |-> ReadRosterRows(rows),
        cache |-> Stored(ReadRosterRows(rows))]

\* TeamsCrudService.getAllTeams
GetAllTeams(cTeams, rows) ==
  IF cTeams.present THEN [val |-> cTeams.val, cache |-> cTeams]
  ELSE IF Len(rows) = 0 THEN [val |-> <<>>, cache |-> cTeams]
  ELSE [val |-> ReadTeamRows(rows), cache |-> Stored(ReadTeamRows(rows))]

\* TeamsCrudService.getAllVacantPositions
GetAllVacantPositions(cVac, rows) ==
  IF cVac.present THEN [val |-> cVac.val, cache |-> cVac]
  ELSE IF Len(rows) = 0 THEN [val |-> <<>>, cache |-> cVac]
  ELSE [val |-> ReadVacantRows(rows), cache |-> Stored(ReadVacantRows(rows))]

\* GetAllDataCall with the cache write moved into a finally block
GetAllDataCall_StoresOnFailure ==
  IF cacheAllData.present
  THEN [ret |-> cacheAllData.val, threw |-> FALSE, miss |-> FALSE,
        cAll |-> cacheAllData, cRaw |-> cacheRaw,
        cTeams |-> cacheTeams, cVac |-> cacheVacants]
  ELSE LET raw == ReadTeamListRaw(cacheRaw, sheetFound, roster)
           teams == GetAllTeams(cacheTeams, teamRows)
           vacs == GetAllVacantPositions(cacheVacants, vacRows)
           tree == AssembleTree(raw.val, teams.val, vacs.val)
       IN IF raw.threw
          THEN [ret |-> <<>>, threw |-> TRUE, miss |-> TRUE,
                cAll |-> Stored(<<>>), cRaw |-> cacheRaw,
                cTeams |-> cacheTeams, cVac |-> cacheVacants]
          ELSE [ret |-> tree, threw |-> FALSE, miss |-> TRUE,
                cAll |-> Stored(tree), cRaw |-> raw.cache,
                cTeams |-> teams.cache, cVac |-> vacs.cache]

\* OrgCrudService.getAllData: the value returned and the four cache entries
\* after the call
GetAllDataCall ==
  IF cacheAllData.present
  THEN [ret |-> cacheAllData.val, threw |-> FALSE, miss |-> FALSE,
        cAll |-> cacheAllData, cRaw |-> cacheRaw,
        cTeams |-> cacheTeams, cVac |-> cacheVacants]
  ELSE LET raw == ReadTeamListRaw(cacheRaw, sheetFound, roster)
           teams == GetAllTeams(cacheTeams, teamRows)
           vacs == GetAllVacantPositions(cacheVacants, vacRows)
           tree == AssembleTree(raw.val, teams.val, vacs.val)
       IN IF raw.threw
          THEN [ret |-> <<>>, threw |-> TRUE, miss |-> TRUE,
                cAll |-> cacheAllData, cRaw |-> cacheRaw,
                cTeams |-> cacheTeams, cVac |-> cacheVacants]
          ELSE [ret |-> tree, threw |-> FALSE, miss |-> TRUE,
                cAll |-> Stored(tree), cRaw |-> raw.cache,
                cTeams |-> teams.cache, cVac |-> vacs.cache]

ApplyRead(call) ==
  /\ cacheAllData' = call.cAll
  /\ cacheRaw' = call.cRaw
  /\ cacheTeams' = call.cTeams
  /\ cacheVacants' = call.cVac

(***************************************************************************)
(* Read operations                                                         *)
(***************************************************************************)
GetAllData ==
  LET call == GetAllDataCall
  IN /\ ApplyRead(call)
     /\ r' = [op |-> "getAllData", arg |-> "", threw |-> call.threw,
              miss |-> call.miss, ret |-> call.ret]
     /\ UNCHANGED <<stores, w>>

\* data.find(p => p.id === String(id)) || null; null is the empty list
FindById(data, id) ==
  LET hits == {k \in 1..Len(data) : data[k].id = id}
  IN IF hits = {} THEN <<>>
     ELSE <<data[CHOOSE k \in hits : \A j \in hits : k <= j]>>

GetById(id) ==
  LET call == GetAllDataCall
  IN /\ ApplyRead(call)
     /\ r' = [op |-> "getById", arg |-> id, threw |-> call.threw,
              miss |-> call.miss, ret |-> FindById(call.ret, id)]
     /\ UNCHANGED <<stores, w>>

\* data.filter(p => p.email && p.email.toLowerCase().trim() === normalizedEmail)
FilterByEmail(data, email) ==
  LET keep == [k \in 1..Len(data) |-> data[k].email # "" /\ data[k].email = email]
      idx == KeptIdx(keep, 1, Len(data))
  IN [k \in 1..Len(idx) |-> data[idx[k]]]

GetByEmail(email) ==
  LET call == GetAllDataCall
  IN /\ email # ""
     /\ ApplyRead(call)
     /\ r' = [op |-> "getByEmail", arg |-> email, threw |-> call.threw,
              miss |-> call.miss, ret |-> FilterByEmail(call.ret, email)]
     /\ UNCHANGED <<stores, w>>

(***************************************************************************)
(* The cache drops an entry whose TTL has elapsed (CACHE_TTL = 300 for     *)
(* 'org:all_data', 'teams:all', 'teams:vacants'; CACHE_TTL_RAW = 600 for   *)
(* 'org:teamlist_raw')                                                     *)
(***************************************************************************)
ExpireAllData ==
  /\ cacheAllData.present
  /\ cacheAllData' = Absent
  /\ UNCHANGED <<stores, cacheRaw, cacheTeams, cacheVacants, w, r>>

ExpireRaw ==
  /\ cacheRaw.present
  /\ cacheRaw' = Absent
  /\ UNCHANGED <<stores, cacheAllData, cacheTeams, cacheVacants, w, r>>

ExpireTeams ==
  /\ cacheTeams.present
  /\ cacheTeams' = Absent
  /\ UNCHANGED <<stores, cacheAllData, cacheRaw, cacheVacants, w, r>>

ExpireVacants ==
  /\ cacheVacants.present
  /\ cacheVacants' = Absent
  /\ UNCHANGED <<stores, cacheAllData, cacheRaw, cacheTeams, w, r>>

(***************************************************************************)
(* Personnel writes: OrgCrudService.addPerson / updatePerson / deletePerson*)
(***************************************************************************)
Undef == "#undef"
Null == "#null"
UndefName == <<"#undef">>
NullName == <<"#null">>

\* OrgCrudService._generateNextHid over the records _readTeamListRaw returns
GenerateNextHid(personnel) ==
  LET nums == {ParseInt(personnel[k].hid) : k \in 1..Len(personnel)} \cup {0}
      maxHid == CHOOSE n \in nums : \A m \in nums : n >= m
  IN PadStart3(maxHid + 1)

\* OrgCrudService._buildTeamListRow after the field mappings of addPerson
BuildTeamListRow(person, upid) ==
  [ employeeCode |-> person.employeeCode,
    contract |-> person.contract,
    task |-> person.task,
    ws |-> person.ws,
    first |-> IF NameTruthy(person.name) THEN SplitFirst(person.name) ELSE EmptyStr,
    last |-> IF NameTruthy(person.name) THEN SplitRest(person.name) ELSE EmptyStr,
    email |-> person.email,
    cpc |-> person.cpc,
    hid |-> person.hid,
    upid |-> upid,
    sup |-> person.reportsTo,
    leadership |-> IF person.leadership THEN "TRUE" ELSE "",
    status |-> IF person.status # "" THEN person.status ELSE "Active",
    nodeType |-> IF person.nodeType # "" THEN person.nodeType ELSE "person",
    active |-> IF person.activeInOrg # "#false" THEN "TRUE" ELSE "FALSE" ]

AddPerson(person, permitted) ==
  LET raw == ReadTeamListRaw(cacheRaw, sheetFound, roster)
      hid == IF person.hid # "" THEN person.hid ELSE GenerateNextHid(raw.val)
      upid == IF person.upid # "" THEN person.upid
              ELSE (IF person.cpc # "" THEN person.cpc ELSE DefaultCpc) \o "-" \o hid
  IN /\ r' = NoRead
     /\ UNCHANGED <<teamRows, vacRows, sheetFound, cacheTeams, cacheVacants>>
     /\ IF ~permitted
        THEN /\ w' = WriteResult("addPerson", FALSE, TRUE, "", EmptyStr)
             /\ UNCHANGED <<roster, cacheAllData, cacheRaw>>
        ELSE IF ~sheetFound
        THEN /\ w' = WriteResult("addPerson", FALSE, FALSE, "", EmptyStr)
             /\ UNCHANGED <<roster, cacheAllData, cacheRaw>>
        ELSE /\ roster' = Append(roster, BuildTeamListRow(person, upid))
             /\ cacheAllData' = Absent
             /\ cacheRaw' = Absent
             /\ w' = WriteResult("addPerson", TRUE, FALSE, upid, person.name)

\* the data row (1-based, header excluded) of the first row whose UPID cell
\* equals id; 0 when there is none
FindRowByUpid(rows, id) ==
  LET hits == {k \in 1..Len(rows) : rows[k].upid = id}
  IN IF hits = {} THEN 0 ELSE CHOOSE k \in hits : \A j \in hits : k <= j

\* parentId.startsWith('task:') || parentId.startsWith('team:') || parentId === 'root'
IsStructuralId(s) ==
  \/ s = ID_ROOT
  \/ \E t \in {"TASK-001", "TASK-002"} : s = ID_PREFIX_TASK \o t
  \/ \E n \in 1..9 : s = ID_PREFIX_TEAM \o ("TEAM-" \o PadStart3(n))

\* value === null || value === undefined ? '' : value
CellValue(v) == IF v = Null THEN "" ELSE v
NameCellValue(v) == IF v = NullName THEN EmptyStr ELSE v

\* the cells of one row after the forEach over Object.keys(updates)
UpdateRow(row, u) ==
  LET supFromParent == u.parentId # Undef /\ ~IsStructuralId(u.parentId)
      newSup == IF supFromParent THEN u.parentId ELSE u.supervisorUpid
  IN [ row EXCEPT
         !.first = IF u.name # UndefName THEN SplitFirst(u.name) ELSE row.first,
         !.last = IF u.name # UndefName THEN SplitRest(u.name) ELSE row.last,
         !.sup = IF newSup # Undef THEN CellValue(newSup) ELSE row.sup,
         !.task = IF u.task # Undef THEN CellValue(u.task) ELSE row.task,
         !.status = IF u.personnelContractStatus # Undef
                    THEN CellValue(u.personnelContractStatus) ELSE row.status,
         !.active = IF u.activeInOrg # Undef
                    THEN CellValue(u.activeInOrg) ELSE row.active ]

\* updates.name.split / updates.parentId.startsWith on null: TypeError
UpdateThrows(u) == u.name = NullName \/ u.parentId = Null

\* updatePerson with _invalidateCache called before the row is looked up
UpdatePerson_InvalidatesOnMiss(id, u, permitted) ==
  LET k == FindRowByUpid(roster, id)
  IN /\ r' = NoRead
     /\ UNCHANGED <<teamRows, vacRows, sheetFound, cacheTeams, cacheVacants>>
     /\ IF ~permitted
        THEN /\ w' = WriteResult("updatePerson", FALSE, TRUE, id, u.name)
             /\ UNCHANGED <<roster, cacheAllData, cacheRaw>>
        ELSE IF ~sheetFound \/ k = 0 \/ UpdateThrows(u)
        THEN /\ w' = WriteResult("updatePerson", FALSE, FALSE, id, u.name)
             /\ cacheAllData' = Absent
             /\ cacheRaw' = Absent
             /\ UNCHANGED roster
        ELSE /\ roster' = [roster EXCEPT ![k] = UpdateRow(roster[k], u)]
             /\ cacheAllData' = Absent
             /\ cacheRaw' = Absent
             /\ w' = WriteResult("updatePerson", TRUE, FALSE, id, u.name)

UpdatePerson(id, u, permitted) ==
  LET k == FindRowByUpid(roster, id)
  IN /\ r' = NoRead
     /\ UNCHANGED <<teamRows, vacRows, sheetFound, cacheTeams, cacheVacants>>
     /\ IF ~permitted
        THEN /\ w' = WriteResult("updatePerson", FALSE, TRUE, id, u.name)
             /\ UNCHANGED <<roster, cacheAllData, cacheRaw>>
        ELSE IF ~sheetFound \/ k = 0 \/ UpdateThrows(u)
        THEN /\ w' = WriteResult("updatePerson", FALSE, FALSE, id, u.name)
             /\ UNCHANGED <<roster, cacheAllData, cacheRaw>>
        ELSE /\ roster' = [roster EXCEPT ![k] = UpdateRow(roster[k], u)]
             /\ cacheAllData' = Absent
             /\ cacheRaw' = Absent
             /\ w' = WriteResult("updatePerson", TRUE, FALSE, id, u.name)

(***************************************************************************)
(* Team-mapping and vacancy writes: TeamsCrudService                       *)
(***************************************************************************)
TeamIdOf(n) == "TEAM-" \o PadStart3(n)

\* parseInt of the digits matched by /TEAM-(\d+)/; 0 when there is no match
TeamNum(teamId) ==
  IF \E n \in 1..9 : TeamIdOf(n) = teamId
  THEN CHOOSE n \in 1..9 : TeamIdOf(n) = teamId
  ELSE 0

\* TeamsCrudService._generateTeamId
GenerateTeamId(teams) ==
  LET nums == {TeamNum(teams[k].teamId) : k \in 1..Len(teams)} \cup {0}
      maxNum == CHOOSE n \in nums : \A m \in nums : n >= m
  IN TeamIdOf(maxNum + 1)

\* index in teams of getTeamById(teamId); 0 for null
TeamIdxById(teams, teamId) ==
  LET hits == {k \in 1..Len(teams) : teams[k].teamId = teamId}
  IN IF hits = {} THEN 0 ELSE CHOOSE k \in hits : \A j \in hits : k <= j

CreateTeam(teamData) ==
  LET read == GetAllTeams(cacheTeams, teamRows)
      teamId == IF teamData.teamId # "" THEN teamData.teamId
                ELSE GenerateTeamId(read.val)
      rowData == [ contract |-> IF teamData.contract # "" THEN teamData.contract
                                ELSE DefaultContract,
                   task |-> teamData.task,
                   teamId |-> teamId,
                   teamName |-> teamData.teamName,
                   isActive |-> teamData.isActive # "#false" ]
  IN /\ r' = NoRead
     /\ UNCHANGED <<roster, vacRows, sheetFound, cacheAllData, cacheRaw, cacheVacants>>
     /\ IF TeamIdxById(read.val, teamId) # 0
        THEN /\ w' = WriteResult("createTeam", FALSE, FALSE, teamId, EmptyStr)
             /\ cacheTeams' = read.cache
             /\ UNCHANGED teamRows
        ELSE /\ teamRows' = Append(teamRows, rowData)
             /\ cacheTeams' = Absent
             /\ w' = WriteResult("createTeam", TRUE, FALSE, teamId, EmptyStr)

\* TeamsCrudService.updateTeam: the merged row written at team.rowIndex
UpdateTeamCall(op, teamId, updates) ==
  LET read == GetAllTeams(cacheTeams, teamRows)
      k == TeamIdxById(read.val, teamId)
      team == read.val[k]
      rowData == [ contract |-> team.contract,
                   task |-> IF updates.task # Undef THEN updates.task ELSE team.task,
                   teamId |-> teamId,
                   teamName |-> team.teamName,
                   isActive |-> IF updates.isActive = "#true" THEN TRUE
                                ELSE IF updates.isActive = "#false" THEN FALSE
                                ELSE team.isActive ]
  IN /\ r' = NoRead
     /\ UNCHANGED <<roster, vacRows, sheetFound, cacheAllData, cacheRaw, cacheVacants>>
     /\ IF k = 0
        THEN /\ w' = WriteResult(op, FALSE, FALSE, teamId, EmptyStr)
             /\ cacheTeams' = read.cache
             /\ UNCHANGED teamRows
        ELSE /\ teamRows' = [teamRows EXCEPT ![team.rowIndex - 1] = rowData]
             /\ cacheTeams' = Absent
             /\ w' = WriteResult(op, TRUE, FALSE, teamId, EmptyStr)

UpdateTeam(teamId, updates) == UpdateTeamCall("updateTeam", teamId, updates)

ReactivateTeam(teamId) ==
  UpdateTeamCall("reactivateTeam", teamId, [task |-> Undef, isActive |-> "#true"])

RemoveAt(s, i) == SubSeq(s, 1, i - 1) \o SubSeq(s, i + 1, Len(s))

DeleteTeam(teamId, hardDelete) ==
  LET read == GetAllTeams(cacheTeams, teamRows)
      k == TeamIdxById(read.val, teamId)
      team == read.val[k]
  IN /\ r' = NoRead
     /\ UNCHANGED <<roster, vacRows, sheetFound, cacheAllData, cacheRaw, cacheVacants>>
     /\ IF k = 0
        THEN /\ w' = WriteResult("deleteTeam", FALSE, FALSE, teamId, EmptyStr)
             /\ cacheTeams' = read.cache
             /\ UNCHANGED teamRows
        ELSE /\ teamRows' = IF hardDelete THEN RemoveAt(teamRows, team.rowIndex - 1)
                            ELSE [teamRows EXCEPT ![team.rowIndex - 1].isActive = FALSE]
             /\ cacheTeams' = Absent
             /\ w' = WriteResult("deleteTeam", TRUE, FALSE, teamId, EmptyStr)

\* (vacantData.task || 'UNKNOWN').replace('TASK-', '')
TaskSuffix(task) ==
  CASE task = "TASK-001" -> "001"
    [] task = "TASK-002" -> "002"
    [] OTHER -> "UNKNOWN"

VacId(task, n) == "VAC-" \o TaskSuffix(task) \o "-" \o ToString(n)

\* id.startsWith('VAC-')
StartsWithVAC(id) ==
  \E t \in {"", "TASK-001", "TASK-002"} : \E n \in 1..9 : id = VacId(t, n)

\* existing.filter(v => v.task === vacantData.task).length + 1; an absent
\* vacantData.task is undefined and equals no v.task
VacantCount(existing, task) ==
  IF task = "" THEN 1
  ELSE Cardinality({k \in 1..Len(existing) : existing[k].task = task}) + 1

CreateVacantPosition(vacantData) ==
  LET read == GetAllVacantPositions(cacheVacants, vacRows)
      vacantId == IF vacantData.vacantId # "" THEN vacantData.vacantId
                  ELSE VacId(vacantData.task, VacantCount(read.val, vacantData.task))
      rowData == [ vacantId |-> vacantId,
                   task |-> vacantData.task,
                   team |-> vacantData.team,
                   sup |-> vacantData.supervisorUpid,
                   isActive |-> TRUE ]
  IN /\ r' = NoRead
     /\ vacRows' = Append(vacRows, rowData)
     /\ cacheTeams' = Absent
     /\ cacheVacants' = Absent
     /\ w' = WriteResult("createVacantPosition", TRUE, FALSE, vacantId, EmptyStr)
     /\ UNCHANGED <<roster, teamRows, sheetFound, cacheAllData, cacheRaw>>

\* TeamsCrudService.deleteVacantPosition, also reached from deletePerson
DeleteVacantCall(op, vacantId) ==
  LET read == GetAllVacantPositions(cacheVacants, vacRows)
      hits == {k \in 1..Len(read.val) : read.val[k].vacantId = vacantId}
      vacant == read.val[CHOOSE k \in hits : \A j \in hits : k <= j]
  IN /\ r' = NoRead
     /\ UNCHANGED <<roster, teamRows, sheetFound, cacheAllData, cacheRaw>>
     /\ IF hits = {}
        THEN /\ w' = WriteResult(op, FALSE, FALSE, vacantId, EmptyStr)
             /\ cacheVacants' = read.cache
             /\ UNCHANGED <<vacRows, cacheTeams>>
        ELSE /\ vacRows' = [vacRows EXCEPT ![vacant.rowIndex - 1].isActive = FALSE]
             /\ cacheTeams' = Absent
             /\ cacheVacants' = Absent
             /\ w' = WriteResult(op, TRUE, FALSE, vacantId, EmptyStr)

DeleteVacantPosition(vacantId) == DeleteVacantCall("deleteVacantPosition", vacantId)

\* deletePerson with the 'VAC-' branch taken before the permission check
DeletePerson_VacancyBeforeGate(id, permitted) ==
  LET k == FindRowByUpid(roster, id)
  IN IF id # "" /\ StartsWithVAC(id)
     THEN DeleteVacantCall("deletePerson", id)
     ELSE IF ~permitted
     THEN /\ w' = WriteResult("deletePerson", FALSE, TRUE, id, EmptyStr)
          /\ r' = NoRead
          /\ UNCHANGED <<stores, caches>>
     ELSE /\ r' = NoRead
          /\ UNCHANGED <<teamRows, vacRows, sheetFound, cacheTeams, cacheVacants>>
          /\ IF ~sheetFound \/ k = 0
             THEN /\ w' = WriteResult("deletePerson", FALSE, FALSE, id, EmptyStr)
                  /\ UNCHANGED <<roster, cacheAllData, cacheRaw>>
             ELSE /\ roster' = [roster EXCEPT ![k].active = "FALSE",
                                              ![k].status = "Departed"]
                  /\ cacheAllData' = Absent
                  /\ cacheRaw' = Absent
                  /\ w' = WriteResult("deletePerson", TRUE, FALSE, id, EmptyStr)

DeletePerson(id, permitted) ==
  LET k == FindRowByUpid(roster, id)
  IN IF ~permitted
     THEN /\ w' = WriteResult("deletePerson", FALSE, TRUE, id, EmptyStr)
          /\ r' = NoRead
          /\ UNCHANGED <<stores, caches>>
     ELSE IF id # "" /\ StartsWithVAC(id)
     THEN DeleteVacantCall("deletePerson", id)
     ELSE /\ r' = NoRead
          /\ UNCHANGED <<teamRows, vacRows, sheetFound, cacheTeams, cacheVacants>>
          /\ IF ~sheetFound \/ k = 0
             THEN /\ w' = WriteResult("deletePerson", FALSE, FALSE, id, EmptyStr)
                  /\ UNCHANGED <<roster, cacheAllData, cacheRaw>>
             ELSE /\ roster' = [roster EXCEPT ![k].active = "FALSE",
                                              ![k].status = "Departed"]
                  /\ cacheAllData' = Absent
                  /\ cacheRaw' = Absent
                  /\ w' = WriteResult("deletePerson", TRUE, FALSE, id, EmptyStr)

(***************************************************************************)
(* OrgSetupService.setupExternalTeamList without sample data: a new, empty *)
(* Team List spreadsheet is created and registered as the 'teamlist' data  *)
(* store; no cache key is invalidated                                      *)
(***************************************************************************)
SetupExternalTeamList ==
  /\ roster' = <<>>
  /\ sheetFound' = TRUE
  /\ w' = WriteResult("setupExternalTeamList", TRUE, FALSE, "", EmptyStr)
  /\ r' = NoRead
  /\ UNCHANGED <<teamRows, vacRows, caches>>

(***************************************************************************)
(* Inputs of the calls                                                     *)
(***************************************************************************)
PersonBase ==
  [ upid |-> "", cpc |-> "", hid |-> "", name |-> <<"Ann">>, task |-> "", ws |-> "",
    reportsTo |-> "", contract |-> "", email |-> "", employeeCode |-> "",
    status |-> "", activeInOrg |-> Undef, nodeType |-> "", leadership |-> FALSE ]

\* no upid, cpc or hid given: the UPID is generated
PersonGenerated == [PersonBase EXCEPT !.task = "TASK-001", !.reportsTo = "400-001"]
\* two people of one task naming each other as supervisor
PersonA == [PersonBase EXCEPT !.hid = "001", !.task = "TASK-001", !.reportsTo = "400-002"]
PersonB == [PersonBase EXCEPT !.hid = "002", !.task = "TASK-001", !.reportsTo = "400-001",
                              !.email = "b@x"]
\* a departed person whose position stays in the org
PersonDeparted == [PersonBase EXCEPT !.hid = "002", !.status = "Departed"]
\* a departed person removed from the org
PersonGone == [PersonBase EXCEPT !.hid = "002", !.status = "Departed",
                                 !.activeInOrg = "#false"]

AddInputs == {PersonGenerated, PersonA, PersonB, PersonDeparted}

UpdateBase ==
  [ name |-> UndefName, parentId |-> Undef, supervisorUpid |-> Undef, task |-> Undef,
    personnelContractStatus |-> Undef, activeInOrg |-> Undef ]

UpdateInputs ==
  { [UpdateBase EXCEPT !.name = <<"Bob", "Ray">>],
    [UpdateBase EXCEPT !.name = <<"", "Bob">>],
    [UpdateBase EXCEPT !.name = NullName] }

PersonIds == {"400-001", "400-002"}

TeamW1 ==
  [teamId |-> "", contract |-> "", task |-> "TASK-001", teamName |-> "W1", isActive |-> Undef]
\* a team that is given no task
TeamNoTask ==
  [teamId |-> "", contract |-> "", task |-> "", teamName |-> "W2", isActive |-> Undef]

TeamInputs == {TeamW1, TeamNoTask}

TeamIds == {TeamIdOf(1)}

VacantPlain == [vacantId |-> "", task |-> "", team |-> "", supervisorUpid |-> ""]
VacantInTeam ==
  [vacantId |-> "", task |-> "TASK-001", team |-> "TEAM-001", supervisorUpid |-> "400-001"]

VacantInputs == {VacantPlain, VacantInTeam}

VacantIds == {VacId("", 1), VacId("TASK-001", 1)}

Emails == {"b@x"}

(***************************************************************************)
(* Spec: the personnel roster under addPerson / updatePerson /             *)
(* deletePerson, the reads and the expiry of the two 'org:' cache keys.    *)
(* The Team Mappings and Vacant Positions sheets hold one team and one     *)
(* vacancy throughout.                                                     *)
(***************************************************************************)
InitRoster ==
  /\ roster = <<>>
  /\ teamRows = <<[contract |-> DefaultContract, task |-> "TASK-001",
                   teamId |-> TeamIdOf(1), teamName |-> "W1", isActive |-> TRUE]>>
  /\ vacRows = <<[vacantId |-> VacId("TASK-001", 1), task |-> "TASK-001",
                  team |-> "", sup |-> "400-001", isActive |-> TRUE]>>
  /\ sheetFound = FALSE
  /\ cacheAllData = Absent
  /\ cacheRaw = Absent
  /\ cacheTeams = Absent
  /\ cacheVacants = Absent
  /\ w = NoWrite
  /\ r = NoRead
  /\ canEdit = TRUE
  /\ allRecords = NoFill
  /\ InitEmail

Next ==
  /\ UNCHANGED <<canEdit, allRecords, emailVars>>
  /\ \/ SetupExternalTeamList
     \/ Len(roster) < MaxRoster /\ \E p \in AddInputs : AddPerson(p, TRUE)
     \/ \E id \in PersonIds, u \in UpdateInputs : UpdatePerson(id, u, TRUE)
     \/ \E id \in PersonIds : DeletePerson(id, TRUE)
     \/ GetAllData
     \/ \E id \in PersonIds : GetById(id)
     \/ \E e \in Emails : GetByEmail(e)
     \/ ExpireAllData
     \/ ExpireRaw

Spec == InitRoster /\ [][Next]_vars

(***************************************************************************)
(* SpecTeams: the Team Mappings and Vacant Positions sheets under the      *)
(* TeamsCrudService writes (and deletePerson with a 'VAC-' id), one kind   *)
(* of person in the roster, getAllData and the expiry of the tree cache.   *)
(***************************************************************************)
NextTeams ==
  /\ UNCHANGED <<canEdit, allRecords, emailVars>>
  /\ \/ SetupExternalTeamList
     \/ Len(roster) < MaxRoster /\ AddPerson(PersonGenerated, TRUE)
     \/ Len(teamRows) < MaxTeams /\ \E t \in TeamInputs : CreateTeam(t)
     \/ \E id \in TeamIds : UpdateTeam(id, [task |-> Undef, isActive |-> "#false"])
     \/ \E id \in TeamIds, hard \in BOOLEAN : DeleteTeam(id, hard)
     \/ \E id \in TeamIds : ReactivateTeam(id)
     \/ Len(vacRows) < MaxVacants /\ \E v \in VacantInputs : CreateVacantPosition(v)
     \/ \E id \in VacantIds : DeleteVacantPosition(id)
     \/ \E id \in VacantIds : DeletePerson(id, TRUE)
     \/ GetAllData
     \/ ExpireAllData
     \/ ExpireTeams
     \/ ExpireVacants

SpecTeams == Init /\ [][NextTeams]_vars

(***************************************************************************)
(* SpecShape: the shape of the tree getAllData returns, over the stores    *)
(* that addPerson, createTeam and createVacantPosition build up.           *)
(***************************************************************************)
\* a third person of the same task, supervised by PersonB
PersonC == [PersonBase EXCEPT !.hid = "003", !.task = "TASK-001", !.reportsTo = "400-002"]

\* the director of the contract of TASK-001
PersonDirector == [PersonBase EXCEPT !.hid = "004", !.cpc = "100", !.contract = "SQuAT",
                                     !.nodeType = "director"]

ShapeInputs == {PersonA, PersonB, PersonC, PersonDirector}

NextShape ==
  /\ UNCHANGED <<canEdit, allRecords, emailVars>>
  /\ \/ SetupExternalTeamList
     \/ Len(roster) < MaxShapeRoster /\ \E p \in ShapeInputs : AddPerson(p, TRUE)
     \/ Len(teamRows) < MaxTeams /\ \E t \in TeamInputs : CreateTeam(t)
     \/ Len(vacRows) < MaxVacants /\ \E v \in VacantInputs : CreateVacantPosition(v)
     \/ \E id \in VacantIds : DeleteVacantPosition(id)
     \/ GetAllData

SpecShape == Init /\ [][NextShape]_vars

(***************************************************************************)
(* SpecClassify: _readTeamListRaw as a function of the rows of the Team    *)
(* List sheet.  The sheet starts with any rows over the cell values below  *)
(* and is only read.                                                       *)
(***************************************************************************)
ClassifyRows ==
  { [ employeeCode |-> "", contract |-> "", task |-> "TASK-001", ws |-> "",
      first |-> <<"Ann">>, last |-> <<"Lee">>, email |-> ids[2],
      cpc |-> cpc, hid |-> "001", upid |-> ids[1], sup |-> "",
      leadership |-> lead, status |-> status, nodeType |-> nodeType, active |-> active ] :
      ids \in {<<"400-001", "">>, <<"", "a@x">>, <<"", "">>},
      cpc \in {"", "100", "400"},
      lead \in {"", "Yes"},
      status \in {"Active", "Departed"},
      nodeType \in {"", "Lead"},
      active \in {"#true", "TRUE", "", "#false", "FALSE", "false"} }

RECURSIVE SeqsUpTo(_, _)
\* the sequences of at most n elements of S
SeqsUpTo(S, n) ==
  IF n = 0 THEN {<<>>}
  ELSE LET shorter == SeqsUpTo(S, n - 1)
       IN shorter \cup {Append(q, x) : q \in shorter, x \in S}

InitClassify ==
  /\ roster \in SeqsUpTo(ClassifyRows, MaxClassifyRows)
  /\ teamRows = <<>>
  /\ vacRows = <<>>
  /\ sheetFound = TRUE
  /\ cacheAllData = Absent
  /\ cacheRaw = Absent
  /\ cacheTeams = Absent
  /\ cacheVacants = Absent
  /\ w = NoWrite
  /\ r = NoRead
  /\ canEdit = TRUE
  /\ allRecords = NoFill
  /\ InitEmail

NextClassify == UNCHANGED <<canEdit, allRecords, emailVars>> /\ (GetAllData \/ ExpireAllData)

SpecClassify == InitClassify /\ [][NextClassify]_vars

(***************************************************************************)
(* The tree a getAllData call returned, read as a parent-pointer graph     *)
(***************************************************************************)
\* the result of the last getAllData call since the last write, if any
TreeRead == r.op = "getAllData" /\ ~r.threw

HasNode(tree, id) == \E k \in DOMAIN tree : tree[k].id = id

\* parentId of the first node of the list with this id
ParentOf(tree, id) ==
  tree[CHOOSE k \in DOMAIN tree :
         tree[k].id = id /\ \A j \in DOMAIN tree : tree[j].id = id => k <= j].parentId

RECURSIVE Ancestors(_, _, _)
\* the ids met by following parentId from id, for at most fuel hops
Ancestors(tree, id, fuel) ==
  IF fuel = 0 \/ ~HasNode(tree, id) THEN {}
  ELSE {ParentOf(tree, id)} \cup Ancestors(tree, ParentOf(tree, id), fuel - 1)

RECURSIVE HopsToRoot(_, _, _)
\* the number of parentId hops from id to the root; -1 when the root is not
\* reached within fuel hops
HopsToRoot(tree, id, fuel) ==
  IF id = ID_ROOT THEN 0
  ELSE IF fuel = 0 \/ ~HasNode(tree, id) THEN -1
  ELSE LET h == HopsToRoot(tree, ParentOf(tree, id), fuel - 1)
       IN IF h = -1 THEN -1 ELSE h + 1

\* C1: in every non-empty result of getAllData, the parentId of every node
\* except the root is the id of some other node of the same result.
C1_Connectivity ==
  (TreeRead /\ r.ret # <<>>) =>
    \A k \in DOMAIN r.ret :
      r.ret[k].id # ID_ROOT =>
        \E j \in DOMAIN r.ret : j # k /\ r.ret[j].id = r.ret[k].parentId

\* C2: in every result of getAllData no node is its own parent or the parent
\* of one of its ancestors: following parentId never comes back to a node.
C2_Acyclicity ==
  TreeRead =>
    \A k \in DOMAIN r.ret :
      r.ret[k].id \notin Ancestors(r.ret, r.ret[k].id, Len(r.ret))

\* C3: in every result of getAllData, a node whose parentId chain reaches the
\* root reaches it in at most 3 hops.
C3_BoundedDepth ==
  TreeRead =>
    \A k \in DOMAIN r.ret : HopsToRoot(r.ret, r.ret[k].id, Len(r.ret)) <= 3

\* C4: all id values of a getAllData result are pairwise distinct.
C4_UniqueIds ==
  TreeRead =>
    \A j, k \in DOMAIN r.ret : j # k => r.ret[j].id # r.ret[k].id

(***************************************************************************)
(* Classification of roster rows                                           *)
(***************************************************************************)
\* the nodes of a tree that come from the sheet row at data index i
NodesOfRow(tree, i) == {k \in DOMAIN tree : tree[k].row = i + 1}

\* the Active In Org cell is false, 'FALSE' or 'false'
ActiveIsFalse(row) == row.active \in {"#false", "FALSE", "false"}

\* the type of a row that is not departed, over the cells of ClassifyRows
TypeOfCells(row) ==
  IF row.nodeType = "Lead" THEN "lead"
  ELSE IF row.cpc = "100" THEN "director"
  ELSE IF row.leadership = "Yes" THEN "director"
  ELSE "person"

\* C5: a personnel row (one with a UPID or an email) whose status is
\* 'Departed' and whose Active In Org is not false is in the getAllData
\* result with type 'vacant', whatever its CPC, Node Type and leadership
\* cells; with Active In Org false it is not in the result; a row of any
\* other status keeps the type its Node Type, CPC and leadership cells give.
C5_VacancyClassification ==
  TreeRead =>
    \A i \in DOMAIN roster :
      LET row == roster[i]
          nodes == NodesOfRow(r.ret, i)
      IN (row.upid # "" \/ row.email # "") =>
           IF row.status = "Departed"
           THEN IF ActiveIsFalse(row)
                THEN nodes = {}
                ELSE /\ Cardinality(nodes) = 1
                     /\ \A k \in nodes : r.ret[k].type = "vacant"
           ELSE /\ Cardinality(nodes) = 1
                /\ \A k \in nodes : r.ret[k].type = TypeOfCells(row)

\* a departed director row with an explicit Node Type, still active in the
\* org, was read and came out vacant
C5_Witness ==
  /\ TreeRead
  /\ \E i \in DOMAIN roster :
       /\ roster[i].status = "Departed"
       /\ roster[i].active = ""
       /\ roster[i].nodeType = "Lead"
       /\ roster[i].cpc = "100"
       /\ roster[i].upid # ""
       /\ \E k \in NodesOfRow(r.ret, i) : r.ret[k].type = "vacant"

(***************************************************************************)
(* Caching                                                                 *)
(***************************************************************************)
TeamWriteOps ==
  {"createTeam", "updateTeam", "deleteTeam", "reactivateTeam",
   "createVacantPosition", "deleteVacantPosition"}

PersonWriteOps == {"addPerson", "updatePerson", "deletePerson"}

\* the ids of the team nodes and never-filled vacancy nodes of a tree
TeamAndVacantIds(tree) ==
  {tree[k].id : k \in {j \in DOMAIN tree :
     tree[j].type = "team" \/ (tree[j].type = "vacant" /\ tree[j].row = 0)}}

\* the same ids as the two sheets hold them now
TeamAndVacantIdsStored ==
  {ID_PREFIX_TEAM \o teamRows[k].teamId : k \in {j \in DOMAIN teamRows :
     teamRows[j].teamId # "" /\ teamRows[j].isActive}}
  \cup {vacRows[k].vacantId : k \in {j \in DOMAIN vacRows :
     vacRows[j].vacantId # "" /\ vacRows[j].isActive}}

\* C6: after a successful write to team-mapping or vacancy data (deletePerson
\* with a 'VAC-' id included) and before any read, 'org:all_data' is absent,
\* and a getAllData that follows shows the active teams and vacancies of the
\* sheets.
C6_TeamWritesInvalidateTree ==
  (w.ok /\ (w.op \in TeamWriteOps \/ (w.op = "deletePerson" /\ StartsWithVAC(w.id)))) =>
    /\ r = NoRead => ~cacheAllData.present
    /\ TreeRead => TeamAndVacantIds(r.ret) = TeamAndVacantIdsStored

\* C7: after a successful addPerson, updatePerson or deletePerson and before
\* any read, 'org:all_data' and 'org:teamlist_raw' are absent; getById of the
\* id addPerson returned is then non-null, and getById after
\* updatePerson(id, {name: n}) has name n.
C7_ReadYourWrites ==
  (w.ok /\ w.op \in PersonWriteOps) =>
    /\ r = NoRead => (~cacheAllData.present /\ ~cacheRaw.present)
    /\ (w.op = "addPerson" /\ r.op = "getById" /\ r.arg = w.id) => r.ret # <<>>
    /\ (w.op = "updatePerson" /\ w.name # UndefName /\ r.op = "getById"
          /\ r.arg = w.id /\ r.ret # <<>>) => r.ret[1].name = w.name

\* C8: two consecutive getAllData calls with no write between them return
\* the same list, whether the second is served from the cache or recomputed
\* after the expiry of 'org:all_data'.
C8_ReadIdempotence ==
  [][(r.op = "getAllData" /\ r'.op = "getAllData") => r'.ret = r.ret]_vars

\* the person nodes of a tree
PersonPart(tree) == SelectSeq(tree, LAMBDA n : n.row # 0)

\* the tree assembled from the given personnel records and the teams and
\* vacancies getAllData reads in this state
TreeFrom(personnel) ==
  AssembleTree(personnel, GetAllTeams(cacheTeams, teamRows).val,
               GetAllVacantPositions(cacheVacants, vacRows).val)

\* C9 as stated: a call that fills 'org:all_data' derives the personnel part
\* of the tree from the rows the roster holds at the time of the call.
C9_FreshOnMiss ==
  [][(~cacheAllData.present /\ cacheAllData'.present) =>
       PersonPart(cacheAllData'.val) = PersonPart(TreeFrom(ReadRosterRows(roster)))]_vars

\* C9 amended: a call that fills 'org:all_data' derives the personnel part of
\* the tree from the records cached under 'org:teamlist_raw' when that key is
\* present, and from the rows the roster holds at the time of the call when
\* it is absent.
C9_RawSnapshotOnMiss ==
  [][(~cacheAllData.present /\ cacheAllData'.present) =>
       /\ cacheRaw.present =>
            PersonPart(cacheAllData'.val) = PersonPart(TreeFrom(cacheRaw.val))
       /\ ~cacheRaw.present =>
            PersonPart(cacheAllData'.val) = PersonPart(TreeFrom(ReadRosterRows(roster)))]_vars

\* a getAllData that missed 'org:all_data' returned the person of a cached
\* raw read that the roster no longer holds
C9_Witness ==
  /\ TreeRead
  /\ r.miss
  /\ cacheRaw.present
  /\ cacheRaw.val # ReadRosterRows(roster)
  /\ PersonPart(r.ret) # <<>>
  /\ PersonPart(r.ret) = PersonPart(TreeFrom(cacheRaw.val))

\* C10: a read whose getAllData threw returns the empty list (getAllData,
\* getByEmail) or null (getById) and leaves 'org:all_data' absent.
C10_FailSoftRead ==
  r.threw => (r.ret = <<>> /\ ~cacheAllData.present)

\* getById ran while the roster sheet could not be found
C10_Witness ==
  /\ r.threw
  /\ r.op = "getById"
  /\ ~sheetFound
  /\ r.ret = <<>>

(***************************************************************************)
(* SpecResolve: getAllData as a function of the three sheets.  The sheets  *)
(* start with any roster of at most MaxResolveRows rows of ResolveRows,    *)
(* one of the Team Mappings sheets of ResolveTeamSheets and the Vacant     *)
(* Positions sheet ResolveVacantSheet, and are only read.                  *)
(***************************************************************************)
MaxResolveRows == 2

RowBase ==
  [ employeeCode |-> "", contract |-> "", task |-> "", ws |-> "",
    first |-> <<"Ann">>, last |-> <<"Lee">>, email |-> "",
    cpc |-> "400", hid |-> "", upid |-> "", sup |-> "",
    leadership |-> "", status |-> "Active", nodeType |-> "", active |-> "TRUE" ]

ResolveRows ==
  \* people of every task, with every supervisor
  { [RowBase EXCEPT !.upid = u, !.task = t, !.sup = sp] :
      u \in {"400-001", "400-002"},
      t \in {"", "TASK-001", "TASK-002"},
      sp \in {"", "400-001", "400-002"} }
  \cup
  \* people of TASK-001 in the workstream W1
  { [RowBase EXCEPT !.upid = "400-002", !.task = "TASK-001", !.ws = "W1", !.sup = sp] :
      sp \in {"", "400-001"} }
  \cup
  \* directors of the contract SQuAT
  { [RowBase EXCEPT !.upid = u, !.cpc = "100", !.nodeType = "Director",
                    !.contract = "SQuAT"] : u \in {"100-001", "100-002"} }
  \cup
  { \* a director and a deputy with a task, a workstream and a supervisor
    [RowBase EXCEPT !.upid = "100-001", !.cpc = "100", !.nodeType = "Director",
                    !.contract = "SQuAT", !.task = "TASK-001", !.ws = "W1",
                    !.sup = "400-001"],
    [RowBase EXCEPT !.upid = "200-001", !.cpc = "200", !.nodeType = "Deputy",
                    !.task = "TASK-001", !.ws = "W1", !.sup = "400-001"],
    \* a departed director whose position stays in the org
    [RowBase EXCEPT !.upid = "100-002", !.cpc = "100", !.nodeType = "Director",
                    !.contract = "SQuAT", !.status = "Departed"],
    \* portfolio leadership, with and without an explicit Node Type
    [RowBase EXCEPT !.upid = "400-001", !.leadership = "Yes", !.nodeType = "person",
                    !.contract = "SQuAT"],
    [RowBase EXCEPT !.upid = "400-002", !.leadership = "Yes", !.contract = "SQuAT"] }

TeamRowW1(teamId, isActive) ==
  [contract |-> "", task |-> "TASK-001", teamId |-> teamId, teamName |-> "W1",
   isActive |-> isActive]

ResolveTeamSheets ==
  { <<>>,
    <<TeamRowW1(TeamIdOf(1), TRUE)>>,
    <<TeamRowW1(TeamIdOf(1), FALSE), TeamRowW1(TeamIdOf(2), TRUE)>>,
    \* TASK-001 under a contract that has no director
    <<[TeamRowW1(TeamIdOf(1), TRUE) EXCEPT !.contract = "OTHER"]>> }

VacantRow(vacantId, task, team, sup) ==
  [vacantId |-> vacantId, task |-> task, team |-> team, sup |-> sup, isActive |-> TRUE]

ResolveVacantSheet ==
  << VacantRow("VAC-001-1", "TASK-001", TeamIdOf(1), "400-001"),
     VacantRow("VAC-001-2", "TASK-001", TeamIdOf(1), ""),
     VacantRow("VAC-001-3", "TASK-001", "", "400-001"),
     VacantRow("VAC-UNKNOWN-1", "", "", "") >>

InitResolve ==
  /\ roster \in SeqsUpTo(ResolveRows, MaxResolveRows)
  /\ teamRows \in ResolveTeamSheets
  /\ vacRows = ResolveVacantSheet
  /\ sheetFound = TRUE
  /\ cacheAllData = Absent
  /\ cacheRaw = Absent
  /\ cacheTeams = Absent
  /\ cacheVacants = Absent
  /\ w = NoWrite
  /\ r = NoRead
  /\ canEdit = TRUE
  /\ allRecords = NoFill
  /\ InitEmail

NextResolve == UNCHANGED <<canEdit, allRecords, emailVars>> /\ (GetAllData \/ ExpireAllData)

SpecResolve == InitResolve /\ [][NextResolve]_vars

\* the roster row a person node was made from
RowOf(node) == roster[node.row - 1]

\* the person nodes of the last getAllData result
PersonIdx == {k \in DOMAIN r.ret : r.ret[k].row # 0}

\* C11: every non-failing getAllData result has exactly one node with a null
\* parentId, the node with id 'root' and type 'hidden', and it is the first.
C11_SingleRoot ==
  TreeRead =>
    /\ r.ret # <<>>
    /\ r.ret[1].id = ID_ROOT
    /\ r.ret[1].type = "hidden"
    /\ \A k \in DOMAIN r.ret : r.ret[k].parentId = NullId <=> k = 1

\* a result with task, team, person and vacancy nodes, one vacancy with
\* neither supervisor, team nor task
C11_Witness ==
  /\ TreeRead
  /\ \E k \in DOMAIN r.ret : r.ret[k].type = "task"
  /\ \E k \in DOMAIN r.ret : r.ret[k].type = "team"
  /\ PersonIdx # {}
  /\ \E k \in DOMAIN r.ret : r.ret[k].id = "VAC-UNKNOWN-1" /\ r.ret[k].parentId = ID_ROOT

(***************************************************************************)
(* The parent of a person node, read off the sheets                        *)
(***************************************************************************)
\* rule 1 applies to the node
IsTopLevel(node) == node.type \in {"director", "deputy"}

\* the person nodes of the records with this UPID
SupIdx(upid) == {k \in PersonIdx : RowOf(r.ret[k]).upid = upid}

\* the supervisor UPID of the row is the UPID of a record of the roster view
SupResolves(row) == row.sup # "" /\ SupIdx(row.sup) # {}

\* the record the supervisor UPID resolves to: the last one with that UPID
SupRow(row) ==
  RowOf(r.ret[CHOOSE k \in SupIdx(row.sup) : \A j \in SupIdx(row.sup) : j <= k])

\* the active Team Mappings rows with a Team ID whose name is the workstream
\* of the row and whose task is its task
MatchingTeams(row) ==
  {j \in DOMAIN teamRows :
     /\ row.ws # ""
     /\ teamRows[j].isActive
     /\ teamRows[j].teamName = row.ws
     /\ teamRows[j].task = row.task
     /\ teamRows[j].teamId # ""}

\* C12: a person whose node type is 'director' or 'deputy' has the root as
\* parent, whatever its task, workstream and supervisor are.
C12_TopLevelAtRoot ==
  TreeRead =>
    \A k \in PersonIdx : IsTopLevel(r.ret[k]) => r.ret[k].parentId = ID_ROOT

\* a deputy with a task, a workstream that matches an active team and a
\* supervisor that resolves was read
C12_Witness ==
  /\ TreeRead
  /\ \E k \in PersonIdx :
       /\ r.ret[k].type = "deputy"
       /\ RowOf(r.ret[k]).task # ""
       /\ MatchingTeams(RowOf(r.ret[k])) # {}
       /\ SupResolves(RowOf(r.ret[k]))
       /\ r.ret[k].parentId = ID_ROOT

C14_SupervisorWithinTask ==
  TreeRead =>
    \A k \in PersonIdx :
      LET row == RowOf(r.ret[k])
      IN (~IsTopLevel(r.ret[k]) /\ row.task # "" /\ MatchingTeams(row) = {}) =>
           IF SupResolves(row) /\ SupRow(row).task = row.task
           THEN r.ret[k].parentId = row.sup
           ELSE r.ret[k].parentId = ID_PREFIX_TASK \o row.task

\* a person whose supervisor is a record of another task was read and is
\* under the node of its own task
C14_Witness ==
  /\ TreeRead
  /\ \E k \in PersonIdx :
       LET row == RowOf(r.ret[k])
       IN /\ ~IsTopLevel(r.ret[k])
          /\ row.task = "TASK-001"
          /\ SupResolves(row)
          /\ SupRow(row).task = "TASK-002"
          /\ r.ret[k].parentId = ID_PREFIX_TASK \o "TASK-001"

\* C15: a person below the top level with no task is parented to its
\* supervisor when the supervisor UPID is the UPID of a record of the roster
\* view, whatever the task of that record, and to the root otherwise.
C15_NoTaskSupervisorOrRoot ==
  TreeRead =>
    \A k \in PersonIdx :
      LET row == RowOf(r.ret[k])
      IN (~IsTopLevel(r.ret[k]) /\ row.task = "") =>
           r.ret[k].parentId = IF SupResolves(row) THEN row.sup ELSE ID_ROOT

\* a person with no task was read under a supervisor that has a task
C15_Witness ==
  /\ TreeRead
  /\ \E k \in PersonIdx :
       LET row == RowOf(r.ret[k])
       IN /\ ~IsTopLevel(r.ret[k])
          /\ row.task = ""
          /\ SupResolves(row)
          /\ SupRow(row).task # ""
          /\ r.ret[k].parentId = row.sup

(***************************************************************************)
(* The parents of vacancy, task and team nodes, read off the sheets        *)
(***************************************************************************)
\* the parent the cascade of a never-filled vacancy gives a row of the
\* Vacant Positions sheet
VacancyCascade(v) ==
  IF v.sup # "" /\ SupIdx(v.sup) # {} THEN v.sup
  ELSE IF v.team # "" THEN ID_PREFIX_TEAM \o v.team
  ELSE IF v.task # "" THEN ID_PREFIX_TASK \o v.task
  ELSE ID_ROOT

\* C16: a never-filled vacancy is parented to its supervisor when the
\* supervisor UPID resolves to a roster record, else to 'team:<team>' when it
\* has a team, else to 'task:<task>' when it has a task, else to the root.
C16_VacancyCascade ==
  TreeRead =>
    \A j \in DOMAIN vacRows :
      (vacRows[j].isActive /\ vacRows[j].vacantId # "") =>
        /\ \E k \in DOMAIN r.ret : r.ret[k].id = vacRows[j].vacantId
        /\ \A k \in DOMAIN r.ret :
             (r.ret[k].id = vacRows[j].vacantId /\ r.ret[k].row = 0) =>
               r.ret[k].parentId = VacancyCascade(vacRows[j])

\* one read in which a vacancy hangs under its supervisor, one under its
\* team, and the one without team, task and supervisor under the root
C16_Witness ==
  /\ TreeRead
  /\ \E k \in DOMAIN r.ret : r.ret[k].id = "VAC-001-3" /\ r.ret[k].parentId = "400-001"
  /\ \E k \in DOMAIN r.ret :
       r.ret[k].id = "VAC-001-2" /\ r.ret[k].parentId = ID_PREFIX_TEAM \o TeamIdOf(1)
  /\ \E k \in DOMAIN r.ret : r.ret[k].id = "VAC-UNKNOWN-1" /\ r.ret[k].parentId = ID_ROOT

\* the contract of a task: that of the first Team Mappings row of the task,
\* 'SQuAT' when its cell is blank, and none when the task has no row
ContractOfTask(t) ==
  LET hits == {j \in DOMAIN teamRows : teamRows[j].task = t}
      first == teamRows[CHOOSE j \in hits : \A i \in hits : j <= i]
  IN IF hits = {} THEN ""
     ELSE IF first.contract = "" THEN "SQuAT" ELSE first.contract

\* the director nodes of a contract
DirectorIdx(c) ==
  {k \in PersonIdx :
     /\ r.ret[k].type = "director"
     /\ RowOf(r.ret[k]).upid # ""
     /\ c # ""
     /\ RowOf(r.ret[k]).contract = c}

\* C17: the parent of a task node is the UPID of the last roster record of
\* node type 'director' whose contract is the contract of the task, and the
\* root when there is none; the parent of a team node is 'task:<task>' of
\* its Team Mappings row.
C17_StructuralParents ==
  TreeRead =>
    /\ \A k \in DOMAIN r.ret : \A t \in {"TASK-001", "TASK-002"} :
         (r.ret[k].type = "task" /\ r.ret[k].id = ID_PREFIX_TASK \o t) =>
           LET ds == DirectorIdx(ContractOfTask(t))
           IN r.ret[k].parentId =
                IF ds = {} THEN ID_ROOT
                ELSE RowOf(r.ret[CHOOSE d \in ds : \A e \in ds : e <= d]).upid
    /\ \A j \in DOMAIN teamRows :
         (teamRows[j].isActive /\ teamRows[j].teamId # "") =>
           \E k \in DOMAIN r.ret :
             /\ r.ret[k].type = "team"
             /\ r.ret[k].id = ID_PREFIX_TEAM \o teamRows[j].teamId
             /\ r.ret[k].parentId = ID_PREFIX_TASK \o teamRows[j].task

\* two directors of the contract of TASK-001 were read and the task node is
\* under the second
C17_Witness ==
  /\ TreeRead
  /\ Len(roster) = 2
  /\ roster[1].upid = "100-001"
  /\ roster[2].upid = "100-002"
  /\ \A k \in PersonIdx : r.ret[k].type = "director"
  /\ \E k \in DOMAIN r.ret :
       r.ret[k].id = ID_PREFIX_TASK \o "TASK-001" /\ r.ret[k].parentId = "100-002"
  /\ \E k \in DOMAIN r.ret : r.ret[k].type = "team"

\* the Portfolio Leadership cell is true, 'TRUE' or 'Yes'
LeadershipIsTruthy(row) == row.leadership \in {"#true", "TRUE", "Yes"}

\* the type the Node Type cell or, when it is blank, the first CPC digit
\* gives the row is 'person'
ComputedTypeIsPerson(row) ==
  \/ row.nodeType \in {"person", "Person"}
  \/ row.nodeType = "" /\ row.cpc \in {"", "400", "410", "900"}

\* C18: a roster row that is not departed, whose Portfolio Leadership flag is
\* truthy and whose computed type is 'person' (from the CPC level map, the
\* default or an explicit Node Type cell) comes out with type 'director'.
C18_LeadershipOverride ==
  TreeRead =>
    \A k \in PersonIdx :
      LET row == RowOf(r.ret[k])
      IN (row.status # "Departed" /\ LeadershipIsTruthy(row) /\ ComputedTypeIsPerson(row)) =>
           r.ret[k].type = "director"

(***************************************************************************)
(* SpecPermission: the personnel writes called by a user who holds the     *)
(* capability 'org.edit' or by one who does not.  The Team List starts     *)
(* unregistered, empty, or with one person an editor added earlier.        *)
(***************************************************************************)
PermissionRosters ==
  { [found |-> FALSE, rows |-> <<>>],
    [found |-> TRUE, rows |-> <<>>],
    [found |-> TRUE, rows |-> <<BuildTeamListRow(PersonA, "400-001")>>] }

InitPermission ==
  /\ \E s \in PermissionRosters : roster = s.rows /\ sheetFound = s.found
  /\ teamRows = <<[contract |-> DefaultContract, task |-> "TASK-001",
                   teamId |-> TeamIdOf(1), teamName |-> "W1", isActive |-> TRUE]>>
  /\ vacRows = <<[vacantId |-> VacId("TASK-001", 1), task |-> "TASK-001",
                  team |-> "", sup |-> "400-001", isActive |-> TRUE]>>
  /\ cacheAllData = Absent
  /\ cacheRaw = Absent
  /\ cacheTeams = Absent
  /\ cacheVacants = Absent
  /\ w = NoWrite
  /\ r = NoRead
  /\ canEdit \in BOOLEAN
  /\ allRecords = NoFill
  /\ InitEmail

NextPermission ==
  /\ UNCHANGED <<canEdit, allRecords, emailVars>>
  /\ \/ Len(roster) < MaxRoster /\ \E p \in {PersonA, PersonB} : AddPerson(p, canEdit)
     \/ \E id \in PersonIds, u \in UpdateInputs : UpdatePerson(id, u, canEdit)
     \/ \E id \in PersonIds \cup VacantIds : DeletePerson(id, canEdit)
     \/ GetAllData
     \/ ExpireAllData

SpecPermission == InitPermission /\ [][NextPermission]_vars

\* the step is a call of addPerson, updatePerson or deletePerson
PersonWriteStep ==
  /\ w'.op \in PersonWriteOps
  /\ r' = NoRead
  /\ w' # w \/ r # NoRead \/ stores' # stores

\* C19: when the caller lacks 'org.edit', a call of addPerson, updatePerson
\* or deletePerson ends in the failure of requirePermission itself (thrown,
\* not returned as {success:false}), and leaves every sheet and every cache
\* key as it was.
C19_PermissionGate ==
  [][(~canEdit /\ PersonWriteStep) =>
       (w'.threw /\ ~w'.ok /\ UNCHANGED <<stores, caches>>)]_vars

\* C19: a caller without 'org.edit' has just been refused a personnel write
\* on a roster that holds a person, while the tree is cached
C19_Witness ==
  /\ ~canEdit
  /\ w.op \in PersonWriteOps
  /\ w.threw
  /\ r = NoRead
  /\ Len(roster) > 0
  /\ cacheAllData.present
  /\ cacheRaw.present

(***************************************************************************)
(* SpecTeamsGate: the TeamsCrudService writes (and deletePerson with a     *)
(* 'VAC-' id) called by a user with or without the capability.             *)
(***************************************************************************)
InitTeamsGate ==
  /\ roster = <<>>
  /\ teamRows = <<>>
  /\ vacRows = <<>>
  /\ sheetFound = FALSE
  /\ cacheAllData = Absent
  /\ cacheRaw = Absent
  /\ cacheTeams = Absent
  /\ cacheVacants = Absent
  /\ w = NoWrite
  /\ r = NoRead
  /\ canEdit \in BOOLEAN
  /\ allRecords = NoFill
  /\ InitEmail

NextTeamsGate ==
  /\ UNCHANGED <<canEdit, allRecords, emailVars>>
  /\ \/ Len(teamRows) < MaxTeams /\ \E t \in TeamInputs : CreateTeam(t)
     \/ \E id \in TeamIds : UpdateTeam(id, [task |-> Undef, isActive |-> "#false"])
     \/ \E id \in TeamIds, hard \in BOOLEAN : DeleteTeam(id, hard)
     \/ \E id \in TeamIds : ReactivateTeam(id)
     \/ Len(vacRows) < MaxVacants /\ \E v \in VacantInputs : CreateVacantPosition(v)
     \/ \E id \in VacantIds : DeleteVacantPosition(id)
     \/ \E id \in VacantIds : DeletePerson(id, canEdit)
     \/ ExpireTeams
     \/ ExpireVacants

SpecTeamsGate == InitTeamsGate /\ [][NextTeamsGate]_vars

NoKeyInvalidated ==
  /\ cacheAllData.present => cacheAllData'.present
  /\ cacheRaw.present => cacheRaw'.present
  /\ cacheTeams.present => cacheTeams'.present
  /\ cacheVacants.present => cacheVacants'.present

\* the step is a call, by a caller who holds 'org.edit', of updatePerson or
\* deletePerson with an id that no row of the roster has as its UPID
NotFoundWriteStep ==
  /\ canEdit
  /\ PersonWriteStep
  /\ w'.op \in {"updatePerson", "deletePerson"}
  /\ FindRowByUpid(roster, w'.id) = 0

\* the call returned {success:false}, the sheets are as they were and no
\* cache key was invalidated
FailedWithoutEffect ==
  /\ ~w'.ok
  /\ ~w'.threw
  /\ UNCHANGED stores
  /\ NoKeyInvalidated

\* C21 as stated: updatePerson(id, ...) and deletePerson(id) with an id that
\* matches no UPID of the roster return {success:false} without throwing,
\* change no row and invalidate no cache key.
C21_NotFoundWrites ==
  [][NotFoundWriteStep => FailedWithoutEffect]_vars

\* C21 amended: the same for an id that does not start with 'VAC-'; with a
\* 'VAC-' id deletePerson is deleteVacantPosition, which fails in this way
\* when no row of the Vacant Positions sheet has the id.
C21_NotFoundWritesAmended ==
  [][(NotFoundWriteStep /\
       (StartsWithVAC(w'.id) =>
          /\ w'.op = "deletePerson"
          /\ \A k \in 1..Len(vacRows) : vacRows[k].vacantId # w'.id))
     => FailedWithoutEffect]_vars

\* C21: an editor's updatePerson or deletePerson has just missed in a roster
\* that holds a person, while the tree is cached
C21_Witness ==
  /\ canEdit
  /\ w.op \in {"updatePerson", "deletePerson"}
  /\ ~StartsWithVAC(w.id)
  /\ FindRowByUpid(roster, w.id) = 0
  /\ ~w.ok /\ ~w.threw
  /\ r = NoRead
  /\ Len(roster) > 0
  /\ cacheAllData.present
  /\ cacheRaw.present

(***************************************************************************)
(* SpecUpid: sequences of addPerson calls that leave the UPID to be        *)
(* generated, deletePerson, updatePerson and the reads, over a Team List   *)
(* that starts registered and empty.                                       *)
(***************************************************************************)
MaxUpidRoster == 2

\* no upid and no hid given; the CPC is the default or that of a director
PersonGeneratedDirector == [PersonBase EXCEPT !.cpc = "100", !.name = <<"Dee">>]

GeneratedInputs == {PersonGenerated, PersonGeneratedDirector}

GeneratedIds == {"400-001", "400-002", "100-001"}

InitUpid ==
  /\ roster = <<>>
  /\ teamRows = <<>>
  /\ vacRows = <<>>
  /\ sheetFound = TRUE
  /\ cacheAllData = Absent
  /\ cacheRaw = Absent
  /\ cacheTeams = Absent
  /\ cacheVacants = Absent
  /\ w = NoWrite
  /\ r = NoRead
  /\ canEdit = TRUE
  /\ allRecords = NoFill
  /\ InitEmail

NextUpid ==
  /\ UNCHANGED <<canEdit, allRecords, emailVars>>
  /\ \/ Len(roster) < MaxUpidRoster /\ \E p \in GeneratedInputs : AddPerson(p, canEdit)
     \/ \E id \in GeneratedIds : DeletePerson(id, canEdit)
     \/ \E id \in GeneratedIds :
          UpdatePerson(id, [UpdateBase EXCEPT !.name = <<"Bob", "Ray">>], canEdit)
     \/ GetAllData
     \/ \E id \in GeneratedIds : GetById(id)
     \/ ExpireAllData

SpecUpid == InitUpid /\ [][NextUpid]_vars

\* the step is a successful deletePerson of a roster id
SoftDeleteStep ==
  /\ PersonWriteStep
  /\ w'.op = "deletePerson"
  /\ w'.ok
  /\ ~StartsWithVAC(w'.id)

\* the roster keeps its rows, the row of the id is departed and inactive,
\* every other row is as it was
SoftDeleteFrame ==
  LET k == FindRowByUpid(roster, w'.id)
  IN /\ Len(roster') = Len(roster)
     /\ k # 0
     /\ roster'[k].status = "Departed"
     /\ roster'[k].active = "FALSE"
     /\ \A j \in 1..Len(roster) : j # k => roster'[j] = roster[j]

\* a read after a successful deletePerson(id) shows no node with that id
GoneAfterSoftDelete ==
  (w.op = "deletePerson" /\ w.ok /\ ~StartsWithVAC(w.id)) =>
    /\ (r.op = "getAllData" /\ ~r.threw) => ~HasNode(r.ret, w.id)
    /\ (r.op = "getById" /\ r.arg = w.id /\ ~r.threw) => r.ret = <<>>

\* C22: a successful deletePerson(upid) keeps the number of rows, sets the
\* matching row to Departed / Active In Org FALSE and leaves the other rows
\* alone; the reads that follow show no node with that id.
C22_SoftDelete ==
  /\ [][SoftDeleteStep => SoftDeleteFrame]_vars
  /\ []GoneAfterSoftDelete

\* C23: no two rows of the roster share a UPID.
C23_UniqueUpids ==
  \A i, j \in 1..Len(roster) : i # j => roster[i].upid # roster[j].upid

\* the step is an editor's updatePerson on a UPID the roster has
UpdateExistingStep ==
  /\ canEdit
  /\ PersonWriteStep
  /\ w'.op = "updatePerson"
  /\ sheetFound
  /\ FindRowByUpid(roster, w'.id) # 0

\* C24: updatePerson on an existing UPID succeeds whatever the update object
\* holds; a name given as null is written as empty First Name and Last Name
\* cells.
C24_LenientUpdates ==
  [][UpdateExistingStep =>
       /\ w'.ok
       /\ w'.name = NullName =>
            LET k == FindRowByUpid(roster, w'.id)
            IN roster'[k].first = EmptyStr /\ roster'[k].last = EmptyStr]_vars

(***************************************************************************)
(* SpecVacancies: sequences of createVacantPosition calls that leave the   *)
(* Vacant ID to be generated and deleteVacantPosition calls, over a Vacant *)
(* Positions sheet that starts empty.                                      *)
(***************************************************************************)
MaxVacancyRows == 3

\* a vacancy of a second task
VacantOfTask2 ==
  [vacantId |-> "", task |-> "TASK-002", team |-> "", supervisorUpid |-> ""]

TaskVacantInputs == {VacantInTeam, VacantOfTask2}

TaskVacantIds == {VacId("TASK-001", 1), VacId("TASK-001", 2), VacId("TASK-002", 1)}

NextVacancies ==
  /\ UNCHANGED <<canEdit, allRecords, emailVars>>
  /\ \/ Len(vacRows) < MaxVacancyRows /\ \E v \in TaskVacantInputs : CreateVacantPosition(v)
     \/ \E id \in TaskVacantIds : DeleteVacantPosition(id)
     \/ ExpireVacants

SpecVacancies == Init /\ [][NextVacancies]_vars

\* C25: no two active rows of the Vacant Positions sheet carry the same
\* Vacant ID.
C25_UniqueVacantIds ==
  \A i, j \in 1..Len(vacRows) :
    (i # j /\ vacRows[i].isActive /\ vacRows[j].isActive) =>
      vacRows[i].vacantId # vacRows[j].vacantId

(***************************************************************************)
(* SpecScenarioD: getAllData over Team Lists that hold departed people     *)
(* whose position stays in the org, next to the people who supervise them. *)
(***************************************************************************)
MaxScenarioRows == 2

\* a departed person of TASK-001 whose Active In Org cell is not false
DepartedBase ==
  [RowBase EXCEPT !.upid = "100-002", !.cpc = "100", !.status = "Departed",
                  !.contract = "SQuAT", !.task = "TASK-001"]

ScenarioRows ==
  \* the supervisor, in the task of the departed, in another task, in none
  { [RowBase EXCEPT !.upid = "400-001", !.task = t] : t \in {"", "TASK-001", "TASK-002"} }
  \cup
  \* departed directors by CPC digit, with and without workstream and supervisor
  { [DepartedBase EXCEPT !.ws = ws, !.sup = sp] :
      ws \in {"", "W1"}, sp \in {"", "400-001"} }
  \cup
  { \* departed director by Node Type cell, Active In Org left blank
    [DepartedBase EXCEPT !.nodeType = "Director", !.active = "", !.sup = "400-001"],
    \* departed deputy
    [DepartedBase EXCEPT !.upid = "200-002", !.cpc = "200", !.ws = "W1"],
    \* departed portfolio leader
    [DepartedBase EXCEPT !.upid = "400-002", !.cpc = "400", !.leadership = "Yes",
                         !.sup = "400-001"],
    \* departed directors without a task
    [DepartedBase EXCEPT !.task = "", !.sup = "400-001"],
    [DepartedBase EXCEPT !.task = ""],
    \* a director in post
    [RowBase EXCEPT !.upid = "100-001", !.cpc = "100", !.contract = "SQuAT",
                    !.task = "TASK-001", !.ws = "W1", !.sup = "400-001"] }

ScenarioTeamSheets == { <<>>, <<TeamRowW1(TeamIdOf(1), TRUE)>> }

InitScenarioD ==
  /\ roster \in SeqsUpTo(ScenarioRows, MaxScenarioRows)
  /\ teamRows \in ScenarioTeamSheets
  /\ vacRows = <<>>
  /\ sheetFound = TRUE
  /\ cacheAllData = Absent
  /\ cacheRaw = Absent
  /\ cacheTeams = Absent
  /\ cacheVacants = Absent
  /\ w = NoWrite
  /\ r = NoRead
  /\ canEdit = TRUE
  /\ allRecords = NoFill
  /\ InitEmail

NextScenarioD == UNCHANGED <<canEdit, allRecords, emailVars>> /\ (GetAllData \/ ExpireAllData)

SpecScenarioD == InitScenarioD /\ [][NextScenarioD]_vars

\* the row is of a departed person whose position stays in the org
IsScenarioD(row) == row.status = "Departed" /\ ~ActiveIsFalse(row)

\* Node Type cell, CPC digit or leadership flag of the row would make a
\* person in post a director or a deputy
WouldBeTopLevel(row) ==
  \/ row.nodeType \in {"Director", "director", "Deputy", "deputy"}
  \/ row.nodeType = "" /\ (row.cpc \in {"100", "200"} \/ LeadershipIsTruthy(row))

\* the parents rules 2-4 allow for the row
CascadeParents(row) ==
  IF row.task # ""
  THEN IF MatchingTeams(row) # {}
       THEN {ID_PREFIX_TEAM \o teamRows[j].teamId : j \in MatchingTeams(row)}
       ELSE IF SupResolves(row) /\ SupRow(row).task = row.task
       THEN {row.sup}
       ELSE {ID_PREFIX_TASK \o row.task}
  ELSE IF SupResolves(row) THEN {row.sup} ELSE {ID_ROOT}

\* C26: a departed record whose position stays in the org is one node of
\* type 'vacant', placed by rules 2-4 from its own task, workstream and
\* supervisor, also when it would otherwise be a director or deputy: with a
\* task it is never at the root.
C26_ScenarioD ==
  TreeRead =>
    \A i \in DOMAIN roster :
      IsScenarioD(roster[i]) =>
        /\ Cardinality(NodesOfRow(r.ret, i)) = 1
        /\ \A k \in NodesOfRow(r.ret, i) :
             /\ r.ret[k].type = "vacant"
             /\ r.ret[k].parentId \in CascadeParents(roster[i])
             /\ roster[i].task # "" => r.ret[k].parentId # ID_ROOT

\* a departed director of W1 with a supervisor of its task was read under
\* the node of its team
C26_Witness ==
  /\ TreeRead
  /\ \E i \in DOMAIN roster :
       /\ IsScenarioD(roster[i])
       /\ WouldBeTopLevel(roster[i])
       /\ SupResolves(roster[i])
       /\ \E k \in NodesOfRow(r.ret, i) :
            r.ret[k].type = "vacant" /\ r.ret[k].parentId = ID_PREFIX_TEAM \o TeamIdOf(1)

(***************************************************************************)
(* Email scanning: EmailScanner.scanForNewEmails.  A row of 'Raw Emails'   *)
(* is [id, contents, ai, processed]; a scan fills the first two cells.     *)
(* The result of GmailApp.search is an input of the call: a list of        *)
(* threads, each a list of message ids.                                    *)
(***************************************************************************)
MaxMessages == 3

MessageIds == {"m" \o ToString(n) : n \in 1..MaxMessages}

\* the Message ID cells of the rows from position n on
IdsFrom(rows, n) == {rows[k].id : k \in n..Len(rows)}

\* the ids of the messages a search returned
MessageSet(messages) == {messages[k] : k \in 1..Len(messages)}

\* getProcessedMessageIds_: the Message ID cells, blank ones filtered out
GetProcessedMessageIds(rows) == {rows[k].id : k \in 1..Len(rows)} \ {""}

\* [messageId, contents]; the AI and Processed cells stay blank
RawEmailRow(messageId) ==
  [id |-> messageId, contents |-> "mail " \o messageId, ai |-> <<>>, processed |-> ""]

\* the loops of scanForNewEmails without processedIds.add(messageId)
RECURSIVE NewRows_NoAdd(_, _)
NewRows_NoAdd(messages, processedIds) ==
  IF messages = <<>> THEN <<>>
  ELSE IF Head(messages) \in processedIds
    THEN NewRows_NoAdd(Tail(messages), processedIds)
    ELSE <<RawEmailRow(Head(messages))>> \o NewRows_NoAdd(Tail(messages), processedIds)

\* newRows after the loops of scanForNewEmails
RECURSIVE NewRows(_, _)
NewRows(messages, processedIds) ==
  IF messages = <<>> THEN <<>>
  ELSE IF Head(messages) \in processedIds
    THEN NewRows(Tail(messages), processedIds)
    ELSE <<RawEmailRow(Head(messages))>>
           \o NewRows(Tail(messages), processedIds \cup {Head(messages)})

\* ensureSheet_ creates 'Raw Emails' when it is missing
ScanForNewEmails(threads) ==
  LET processedIds == GetProcessedMessageIds(rawEmails)
      newRows == NewRows(Flatten(threads), processedIds)
  IN /\ rawExists' = TRUE
     /\ rawEmails' = rawEmails \o newRows
     /\ mail' = [NoCall EXCEPT !.op = "scanForNewEmails",
                               !.newCount = Len(newRows),
                               !.totalProcessed = Cardinality(processedIds) + Len(newRows),
                               !.found = MessageSet(Flatten(threads))]
     /\ UNCHANGED <<outputExists, output, orgVars>>

\* the threads a search returns: up to two threads of up to two messages
Threads == {<<a>> : a \in MessageIds} \cup {<<a, b>> : a, b \in MessageIds}

SearchResults == {<<>>} \cup {<<t>> : t \in Threads} \cup {<<t, u>> : t, u \in Threads}

\* the sheet before the first scan of a behaviour: missing, empty, or with
\* a message and a row whose Message ID cell is blank
InitialRawSheets ==
  { [exists |-> FALSE, rows |-> <<>>],
    [exists |-> TRUE, rows |-> <<>>],
    [exists |-> TRUE, rows |-> <<RawEmailRow("m1")>>],
    [exists |-> TRUE, rows |-> <<[RawEmailRow("") EXCEPT !.contents = "note"],
                                 RawEmailRow("m2")>>] }

\* the org stores as they are before setup
OrgAtRest ==
  /\ roster = <<>>
  /\ teamRows = <<>>
  /\ vacRows = <<>>
  /\ sheetFound = FALSE
  /\ cacheAllData = Absent
  /\ cacheRaw = Absent
  /\ cacheTeams = Absent
  /\ cacheVacants = Absent
  /\ w = NoWrite
  /\ r = NoRead
  /\ canEdit = TRUE
  /\ allRecords = NoFill

InitScan ==
  /\ OrgAtRest
  /\ \E s \in InitialRawSheets : rawExists = s.exists /\ rawEmails = s.rows
  /\ outputExists = FALSE
  /\ output = <<>>
  /\ mail = NoCall

NextScan == \E threads \in SearchResults : ScanForNewEmails(threads)

SpecScan == InitScan /\ [][NextScan]_vars

\* what a scan does to the sheet: the old rows stay, every appended row has
\* a Message ID that was not in column A and that no other appended row
\* has, and newCount is the number of appended rows
ScanAppendsOnlyNew ==
  /\ Len(rawEmails') >= Len(rawEmails)
  /\ SubSeq(rawEmails', 1, Len(rawEmails)) = rawEmails
  /\ \A k \in (Len(rawEmails) + 1)..Len(rawEmails') :
       /\ rawEmails'[k].id \notin IdsFrom(rawEmails, 1)
       /\ \A j \in (Len(rawEmails) + 1)..Len(rawEmails') :
            j # k => rawEmails'[j].id # rawEmails'[k].id
       /\ rawEmails'[k].id \in mail'.found
  /\ mail'.newCount = Len(rawEmails') - Len(rawEmails)
  /\ mail'.found \subseteq IdsFrom(rawEmails, 1) =>
       (rawEmails' = rawEmails /\ mail'.newCount = 0)

\* every message id is in at most one row
DistinctMessageIds ==
  \A j, k \in 1..Len(rawEmails) :
    (j # k /\ rawEmails[j].id # "") => rawEmails[j].id # rawEmails[k].id

\* C27: a scan appends no message whose id is already in column A and no id
\* twice, so each message id stays in at most one row over any sequence of
\* scans; a scan that finds nothing new appends nothing and returns
\* newCount = 0.
C27_ScanDeduplicates ==
  /\ [][mail'.op = "scanForNewEmails" => ScanAppendsOnlyNew]_vars
  /\ []DistinctMessageIds

\* a scan whose search returned a message already in the sheet, and one new
\* message in two threads, has appended the new message once
C27_Witness ==
  /\ mail.op = "scanForNewEmails"
  /\ mail.newCount = 1
  /\ mail.totalProcessed = 2
  /\ Len(rawEmails) = 2
  /\ rawEmails[1].id = "m1"
  /\ rawEmails[2].id = "m3"

(***************************************************************************)
(* processOutputJson (config.js).  The text of an AI cell is a list of     *)
(* tokens: "{" and "}", "kv" for a key-value pair, " " for white space and *)
(* "txt" for any other text.                                               *)
(***************************************************************************)
MaxRawRows == 2

JsonNull == <<"#null">>

\* the positions of a token in a text
PositionsOf(str, tok) == {k \in 1..Len(str) : str[k] = tok}

Least(S) == CHOOSE n \in S : \A m \in S : n <= m
Greatest(S) == CHOOSE n \in S : \A m \in S : n >= m

\* a text without its white space
NoSpace(str) == SelectSeq(str, LAMBDA tok : tok # " ")

\* JSON.parse of a text that starts with "{": the object, or null when it
\* throws
JsonParse(str) ==
  IF NoSpace(str) \in {<<"{", "}">>, <<"{", "kv", "}">>} THEN NoSpace(str) ELSE JsonNull

\* cleanAndParseJson_ without the cut at the last "}"
CleanAndParseJson_NoTailCut(raw) ==
  IF PositionsOf(raw, "{") = {} THEN JsonNull
  ELSE JsonParse(SubSeq(raw, Least(PositionsOf(raw, "{")), Len(raw)))

\* cleanAndParseJson_
CleanAndParseJson(raw) ==
  IF PositionsOf(raw, "{") = {} THEN JsonNull
  ELSE LET str == SubSeq(raw, Least(PositionsOf(raw, "{")), Len(raw))
       IN IF PositionsOf(str, "}") = {} THEN JsonNull
          ELSE JsonParse(SubSeq(str, 1, Greatest(PositionsOf(str, "}"))))

\* processed === true || String(processed).trim().toUpperCase() === 'TRUE'
IsProcessed(cell) == cell \in {"#true", "TRUE", "true "}

\* !aiValue || String(aiValue).trim() === ''
AiIsEmpty(cell) == NoSpace(cell) = <<>>

\* the data rows (1-based) the loop pushes to newRows, counts as errors,
\* counts as skipped
RowsToAdd(rows) ==
  {i \in 1..Len(rows) : /\ ~IsProcessed(rows[i].processed)
                        /\ ~AiIsEmpty(rows[i].ai)
                        /\ CleanAndParseJson(rows[i].ai) # JsonNull}
RowsInError(rows) ==
  {i \in 1..Len(rows) : /\ ~IsProcessed(rows[i].processed)
                        /\ ~AiIsEmpty(rows[i].ai)
                        /\ CleanAndParseJson(rows[i].ai) = JsonNull}
RowsSkipped(rows) == {i \in 1..Len(rows) : IsProcessed(rows[i].processed)}

OutputHeader == [category |-> "Category", src |-> 0]

\* the Output row of a data row; src is the data row it was built from
OutputRow(rows, i) ==
  [category |-> IF "kv" \in MessageSet(CleanAndParseJson(rows[i].ai)) THEN "v" ELSE "",
   src |-> i]

\* the rows of a set of positions, in ascending order
RECURSIVE OutputRows(_, _)
OutputRows(rows, idx) ==
  IF idx = {} THEN <<>>
  ELSE <<OutputRow(rows, Least(idx))>> \o OutputRows(rows, idx \ {Least(idx)})

ProcessOutputJson ==
  LET headed == IF Len(output) = 0 THEN <<OutputHeader>> ELSE output
      idx == RowsToAdd(rawEmails)
  IN /\ UNCHANGED <<rawExists, orgVars>>
     /\ IF ~rawExists
        THEN /\ mail' = [NoCall EXCEPT !.op = "processOutputJson", !.threw = TRUE]
             /\ UNCHANGED <<rawEmails, outputExists, output>>
        ELSE IF Len(rawEmails) = 0
        THEN /\ mail' = [NoCall EXCEPT !.op = "processOutputJson"]
             /\ UNCHANGED <<rawEmails, outputExists, output>>
        ELSE /\ outputExists' = TRUE
             /\ output' = headed \o OutputRows(rawEmails, idx)
             /\ rawEmails' = [i \in 1..Len(rawEmails) |->
                                IF i \in idx THEN [rawEmails[i] EXCEPT !.processed = "#true"]
                                ELSE rawEmails[i]]
             /\ mail' = [NoCall EXCEPT !.op = "processOutputJson",
                                       !.rowsAdded = Cardinality(idx),
                                       !.errors = Cardinality(RowsInError(rawEmails)),
                                       !.skipped = Cardinality(RowsSkipped(rawEmails))]

\* the texts of an AI cell
AiValues ==
  { <<>>, <<" ">>,
    <<"{", "kv", "}">>, <<" ", "{", " ", "}", " ">>,
    <<"txt", "{", "kv", "}", "txt">>,
    <<"txt">>, <<"{", "kv">>, <<"}", "{">>, <<"{", "txt", "}">>,
    <<"{", "}", "{", "}">> }

ProcessedCells == {"", "#true", "TRUE", "true ", "FALSE"}

\* the rows of a list of [ai, processed] cells, with the ids of their messages
WithMessageIds(cells) ==
  [k \in 1..Len(cells) |->
     [RawEmailRow("m" \o ToString(k)) EXCEPT !.ai = cells[k].ai,
                                             !.processed = cells[k].processed]]

InitProcess ==
  /\ OrgAtRest
  /\ \/ rawExists = FALSE /\ rawEmails = <<>>
     \/ /\ rawExists = TRUE
        /\ \E cells \in SeqsUpTo([ai : AiValues, processed : ProcessedCells], MaxRawRows) :
             rawEmails = WithMessageIds(cells)
  /\ \E out \in {<<>>, <<OutputHeader, [category |-> "v", src |-> 0]>>} :
       output = out /\ outputExists = (out # <<>>)
  /\ mail = NoCall

NextProcess == ProcessOutputJson

SpecProcess == InitProcess /\ [][NextProcess]_vars

\* the Output rows built from data row i
OutputOf(out, i) == {k \in 1..Len(out) : out[k].src = i}

\* the AI cell parses: the text from its first "{" to its last "}" is a
\* JSON object
AiParses(cell) ==
  \E a, b \in 1..Len(cell) :
    /\ a < b
    /\ cell[a] = "{" /\ \A k \in 1..(a - 1) : cell[k] # "{"
    /\ cell[b] = "}" /\ \A k \in (b + 1)..Len(cell) : cell[k] # "}"
    /\ NoSpace(SubSeq(cell, a, b)) \in {<<"{", "}">>, <<"{", "kv", "}">>}

\* the cell has something other than white space
AiNonEmpty(cell) == \E k \in 1..Len(cell) : cell[k] # " "

\* the rows a run has to add, and the rows it has to count as errors
Pending(rows) ==
  {i \in 1..Len(rows) :
     ~IsProcessed(rows[i].processed) /\ AiNonEmpty(rows[i].ai) /\ AiParses(rows[i].ai)}
Unparsable(rows) ==
  {i \in 1..Len(rows) :
     ~IsProcessed(rows[i].processed) /\ AiNonEmpty(rows[i].ai) /\ ~AiParses(rows[i].ai)}

\* what one run does: one Output row for each row to add, appended below
\* the rows there were; exactly those rows marked; the others untouched;
\* rowsAdded, errors and skipped as counted
ProcessRunEffect ==
  LET idx == Pending(rawEmails)
      base == IF Len(output) = 0 THEN 1 ELSE Len(output)
  IN /\ Len(output') = base + Cardinality(idx)
     /\ \A k \in 1..Len(output) : output'[k] = output[k]
     /\ \A i \in 1..Len(rawEmails) :
          /\ Cardinality({k \in (base + 1)..Len(output') : output'[k].src = i})
               = IF i \in idx THEN 1 ELSE 0
          /\ i \in idx => rawEmails'[i] = [rawEmails[i] EXCEPT !.processed = "#true"]
          /\ i \notin idx => rawEmails'[i] = rawEmails[i]
     /\ Len(rawEmails') = Len(rawEmails)
     /\ mail'.rowsAdded = Cardinality(idx)
     /\ mail'.errors = Cardinality(Unparsable(rawEmails))
     /\ \A i \in RowsSkipped(rawEmails) : i \notin idx
     /\ \A i \in Unparsable(rawEmails) : ~IsProcessed(rawEmails'[i].processed)

\* C28: a run of processOutputJson appends one Output row for each row that
\* is not yet processed and whose AI cell is non-empty and parses, marks
\* exactly those rows, and returns their number; marked rows are skipped,
\* rows that fail to parse stay unmarked and are counted in errors; after a
\* run nothing is left to add, so the next run returns rowsAdded = 0.
C28_ProcessOnce ==
  /\ [][(mail'.op = "processOutputJson" /\ rawExists /\ Len(rawEmails) > 0)
          => ProcessRunEffect]_vars
  /\ [](mail.op = "processOutputJson" => Pending(rawEmails) = {})
  /\ [][(mail.op = "processOutputJson" /\ mail'.op = "processOutputJson")
          => (mail'.rowsAdded = 0 /\ output' = output)]_vars

\* a run has added the Output row of a row whose AI cell wraps the object
\* in other text, next to a row that failed to parse
C28_Witness ==
  /\ mail.op = "processOutputJson"
  /\ mail.rowsAdded = 1
  /\ mail.errors = 1
  /\ Len(rawEmails) = 2
  /\ rawEmails[1].ai = <<"txt", "{", "kv", "}", "txt">>
  /\ rawEmails[1].processed = "#true"
  /\ rawEmails[2].ai = <<"{", "kv">>
  /\ rawEmails[2].processed = ""
  /\ OutputOf(output, 1) # {}

(***************************************************************************)
(* SpecOverlap: a getAllData call that misses 'org:all_data' taken in two  *)
(* steps, its reads and the assembly of the list (GetAllDataBegin) and its *)
(* AppCache.set and return (GetAllDataEnd), with the personnel writes and  *)
(* other reads free to run between the two.                                *)
(***************************************************************************)
GetAllDataBegin ==
  LET call == GetAllDataCall
  IN /\ ~allRecords.active
     /\ ~cacheAllData.present
     /\ cacheRaw' = call.cRaw
     /\ cacheTeams' = call.cTeams
     /\ cacheVacants' = call.cVac
     /\ allRecords' = [active |-> TRUE, threw |-> call.threw, ret |-> call.ret]
     /\ UNCHANGED <<stores, cacheAllData, w, r>>

GetAllDataEnd ==
  /\ allRecords.active
  /\ cacheAllData' = IF allRecords.threw THEN cacheAllData ELSE Stored(allRecords.ret)
  /\ r' = [op |-> "getAllData", arg |-> "overlapped", threw |-> allRecords.threw,
           miss |-> TRUE, ret |-> allRecords.ret]
  /\ allRecords' = NoFill
  /\ UNCHANGED <<stores, cacheRaw, cacheTeams, cacheVacants, w>>

InitOverlap ==
  /\ roster = <<>>
  /\ teamRows = <<>>
  /\ vacRows = <<>>
  /\ sheetFound = TRUE
  /\ cacheAllData = Absent
  /\ cacheRaw = Absent
  /\ cacheTeams = Absent
  /\ cacheVacants = Absent
  /\ w = NoWrite
  /\ r = NoRead
  /\ canEdit = TRUE
  /\ allRecords = NoFill
  /\ InitEmail

NextOverlap ==
  /\ UNCHANGED <<canEdit, emailVars>>
  /\ \/ GetAllDataBegin
     \/ GetAllDataEnd
     \/ /\ UNCHANGED allRecords
        /\ \/ Len(roster) < MaxRoster /\ AddPerson(PersonA, canEdit)
           \/ UpdatePerson("400-001", [UpdateBase EXCEPT !.name = <<"Bob", "Ray">>], canEdit)
           \/ DeletePerson("400-001", canEdit)
           \/ GetAllData
           \/ ExpireAllData

SpecOverlap == InitOverlap /\ [][NextOverlap]_vars

\* C29: once no cache fill is in flight, a getAllData that ran after the
\* last personnel write returns the tree of the roster as that write left
\* it, also when a fill that had read the roster before the write stored
\* 'org:all_data' after it.
C29_ReadsReflectWrite ==
  (r.op = "getAllData" /\ r.arg = "" /\ ~r.threw /\ ~allRecords.active) =>
    r.ret = TreeFrom(ReadRosterRows(roster))

(***************************************************************************)
(* SpecDegraded: getAllData while the spreadsheet of the Team Mappings and *)
(* Vacant Positions sheets cannot be opened.  Whether _getSpreadsheet      *)
(* throws during a call is an input of the call; getAllTeams and           *)
(* getAllVacantPositions catch the error and return [].                    *)
(***************************************************************************)
\* getAllTeams when _getSheet throws on a cache miss
GetAllTeamsOrFail(cTeams, rows, fails) ==
  IF ~cTeams.present /\ fails THEN [val |-> <<>>, cache |-> cTeams]
  ELSE GetAllTeams(cTeams, rows)

\* getAllVacantPositions when _getVacantSheet throws on a cache miss
GetAllVacantPositionsOrFail(cVac, rows, fails) ==
  IF ~cVac.present /\ fails THEN [val |-> <<>>, cache |-> cVac]
  ELSE GetAllVacantPositions(cVac, rows)

\* getAllData with the two fail-soft reads; degraded: a read came back
\* empty because it failed
GetAllDataCallOrFail(teamsFail, vacFail) ==
  IF cacheAllData.present
  THEN [ret |-> cacheAllData.val, threw |-> FALSE, miss |-> FALSE, degraded |-> FALSE,
        cAll |-> cacheAllData, cRaw |-> cacheRaw,
        cTeams |-> cacheTeams, cVac |-> cacheVacants]
  ELSE LET raw == ReadTeamListRaw(cacheRaw, sheetFound, roster)
           teams == GetAllTeamsOrFail(cacheTeams, teamRows, teamsFail)
           vacs == GetAllVacantPositionsOrFail(cacheVacants, vacRows, vacFail)
           tree == AssembleTree(raw.val, teams.val, vacs.val)
           degraded == (~cacheTeams.present /\ teamsFail) \/ (~cacheVacants.present /\ vacFail)
       IN IF raw.threw
          THEN [ret |-> <<>>, threw |-> TRUE, miss |-> TRUE, degraded |-> degraded,
                cAll |-> cacheAllData, cRaw |-> cacheRaw,
                cTeams |-> cacheTeams, cVac |-> cacheVacants]
          ELSE [ret |-> tree, threw |-> FALSE, miss |-> TRUE, degraded |-> degraded,
                cAll |-> Stored(tree), cRaw |-> raw.cache,
                cTeams |-> teams.cache, cVac |-> vacs.cache]

GetAllDataOrFail(teamsFail, vacFail) ==
  LET call == GetAllDataCallOrFail(teamsFail, vacFail)
  IN /\ ApplyRead(call)
     /\ r' = [op |-> "getAllData", arg |-> IF call.degraded THEN "degraded" ELSE "",
              threw |-> call.threw, miss |-> call.miss, ret |-> call.ret]
     /\ UNCHANGED <<stores, w>>

InitDegraded ==
  /\ \E s \in PermissionRosters : roster = s.rows /\ sheetFound = s.found
  /\ teamRows = <<[contract |-> DefaultContract, task |-> "TASK-001",
                   teamId |-> TeamIdOf(1), teamName |-> "W1", isActive |-> TRUE]>>
  /\ vacRows = <<[vacantId |-> VacId("TASK-001", 1), task |-> "TASK-001",
                  team |-> "", sup |-> "400-001", isActive |-> TRUE]>>
  /\ cacheAllData = Absent
  /\ cacheRaw = Absent
  /\ cacheTeams = Absent
  /\ cacheVacants = Absent
  /\ w = NoWrite
  /\ r = NoRead
  /\ canEdit = TRUE
  /\ allRecords = NoFill
  /\ InitEmail

NextDegraded ==
  /\ UNCHANGED <<canEdit, allRecords, emailVars>>
  /\ \/ \E teamsFail, vacFail \in BOOLEAN : GetAllDataOrFail(teamsFail, vacFail)
     \/ Len(roster) < MaxRoster /\ \E p \in {PersonA, PersonB} : AddPerson(p, canEdit)
     \/ \E id \in PersonIds : DeletePerson(id, canEdit)
     \/ ExpireAllData
     \/ ExpireTeams
     \/ ExpireVacants

SpecDegraded == InitDegraded /\ [][NextDegraded]_vars

\* C30: a getAllData in which the read of the teams or of the vacancies
\* failed does not store its tree under 'org:all_data', so a getAllData
\* whose reads all succeed returns the team nodes and vacancies of the
\* sheets.
C30_NoDegradedFill ==
  /\ [][(r'.op = "getAllData" /\ r'.arg = "degraded") => cacheAllData' = cacheAllData]_vars
  /\ []((r.op = "getAllData" /\ r.arg = "" /\ ~r.threw) =>
          TeamAndVacantIds(r.ret) = TeamAndVacantIds(TreeFrom(ReadRosterRows(roster))))
====
